---- MODULE Spec2Model ----
(***************************************************************************)
(* dotto: the git-based Snapshot Comparator (src/src/git/GitScanner.ts).   *)
(* The repository (HEAD, stash stack, uncommitted edits, untracked files   *)
(* of the working directory) is the shared state; each comparison is a     *)
(* process that walks the statements of scanCommitRange or                 *)
(* scanUncommittedChanges, one git command or crawl per step.              *)
(***************************************************************************)
EXTENDS Integers, Sequences, FiniteSets, TLC

VARIABLES
  isRepo,    \* the directory is a git repository
  head,      \* HEAD: [branch, commit]; branch = NoBranch when detached
  stash,     \* the stash stack, top first; an entry is [edits, files]
  dirty,     \* tracked files with uncommitted edits
  disk,      \* untracked dotto files of the working directory: path -> content
  ignored,   \* .gitignore covers the dotto files (stash -u leaves them alone)
  pc,        \* per comparison: the statement it is at
  loc,       \* per comparison: its local variables
  log,       \* per comparison: the commands it executed, with their outcome
  before,    \* per comparison: the repository state when the call started
  faults,    \* external failures injected so far
  runs,      \* comparisons (or commands) started so far
  tree,      \* the schema files of the working directory: index -> content
  ledger,    \* the messages submitted to the Hedera topic, oldest first
  cli,       \* the scan or verify command in flight: position and locals
  edits,     \* edits of the schema files made between commands so far
  graph,     \* the dependency graph: [nodes, edges]
  args,      \* the arguments of a call of a pure operation
  result     \* the value that call returned

\* the state a comparison never touches
others == <<tree, ledger, cli, edits, graph, args, result>>

vars == <<isRepo, head, stash, dirty, disk, ignored, pc, loc, log, before, faults, runs,
          tree, ledger, cli, edits, graph, args, result>>

-----------------------------------------------------------------------------
(* Bounds *)

MaxFaults == 1
MaxRuns == 2

-----------------------------------------------------------------------------
(* File names, as character sequences: TDto.ts, u.ts, R.md *)

F_TradeDto == <<"T","D","t","o",".","t","s">>
F_helper == <<"u",".","t","s">>
F_readme == <<"R",".","m","d">>

\* the tracked files of the modelled repository
Files == {F_TradeDto, F_helper, F_readme}

UpperChars == <<"A","B","C","D","E","F","G","H","I","J","K","L","M",
                "N","O","P","Q","R","S","T","U","V","W","X","Y","Z">>
LowerChars == <<"a","b","c","d","e","f","g","h","i","j","k","l","m",
                "n","o","p","q","r","s","t","u","v","w","x","y","z">>

ToLower(c) ==
  IF \E i \in DOMAIN UpperChars : UpperChars[i] = c
    THEN LowerChars[CHOOSE i \in DOMAIN UpperChars : UpperChars[i] = c]
    ELSE c

LowerCase(name) == [i \in DOMAIN name |-> ToLower(name[i])]

EndsWith(name, suffix) ==
  /\ Len(suffix) <= Len(name)
  /\ SubSeq(name, Len(name) - Len(suffix) + 1, Len(name)) = suffix

\* /re$/i : the lower-cased name ends with the (lower-case) suffix
EndsWithI(name, suffix) == EndsWith(LowerCase(name), suffix)

isSchemaFile(filePath) ==
  \/ \E k \in {<<"d","t","o">>, <<"s","c","h","e","m","a">>,
               <<"i","n","t","e","r","f","a","c","e">>} :
       EndsWithI(filePath, <<".">> \o k \o <<".","t","s">>)
  \/ EndsWithI(filePath, <<"d","t","o",".","t","s">>)
  \/ EndsWithI(filePath, <<"s","c","h","e","m","a",".","t","s">>)
  \/ EndsWithI(filePath, <<"i","n","t","e","r","f","a","c","e",".","t","s">>)
  \/ \E k \in {<<"o","p","e","n","a","p","i">>, <<"s","w","a","g","g","e","r">>} :
       \E e \in {<<"j","s","o","n">>, <<"y","a","m","l">>, <<"y","m","l">>} :
         EndsWithI(filePath, <<".">> \o k \o <<".">> \o e)

\* the filter of getChangedFilesBetweenCommits: by extension, case-sensitive
HasScannedExtension(f) ==
  \/ EndsWith(f, <<".","t","s">>)
  \/ EndsWith(f, <<".","t","s","x">>)
  \/ EndsWith(f, <<".","j","s","o","n">>)
  \/ EndsWith(f, <<".","y","a","m","l">>)
  \/ EndsWith(f, <<".","y","m","l">>)

-----------------------------------------------------------------------------
(* The repository *)

Commits == {"c0", "c1", "c2"}
Branches == {"main"}
NoBranch == ""

BranchTip == [b \in Branches |-> "c1"]

\* content of the tracked files at each commit
CommitTree ==
  [c \in Commits |->
    [f \in Files |->
      CASE c = "c1" /\ f = F_TradeDto -> "v1"
        [] c = "c2" /\ f \in {F_helper, F_readme} -> "v1"
        [] OTHER -> "v0"]]

\* git diff --name-only a b
DiffNames(a, b) == {f \in Files : CommitTree[a][f] # CommitTree[b][f]}

\* git rev-parse <ref>
CanResolve(ref) == isRepo /\ ref \in Commits \cup Branches \cup {"HEAD"}
RevParse(ref) ==
  IF ref = "HEAD" THEN head.commit
  ELSE IF ref \in Branches THEN BranchTip[ref]
  ELSE ref

\* git rev-parse --abbrev-ref HEAD prints HEAD when detached
AbbrevRef == IF head.branch = NoBranch THEN "HEAD" ELSE head.branch

\* git checkout <target>: refuses when an edited file differs between the
\* two commits; otherwise the edits are carried along
CheckoutCommit(target) == IF target = "HEAD" THEN head.commit ELSE RevParse(target)
CanCheckout(target) ==
  /\ CanResolve(target)
  /\ dirty \cap DiffNames(head.commit, CheckoutCommit(target)) = {}
HeadAfterCheckout(target) ==
  IF target = "HEAD" THEN head
  ELSE IF target \in Branches THEN [branch |-> target, commit |-> BranchTip[target]]
  ELSE [branch |-> NoBranch, commit |-> target]

\* the dotto files of the working directory
GraphPath == "graph.json"
StatePath == "dotto_state.json"
BaseEnginePath == ".dotto-baseline.json"
HeadEnginePath == ".dotto-head.json"
Paths == {GraphPath, StatePath, ".dotto-baseline.json", ".dotto-head.json"}
Absent == [k |-> "absent"]
Present(p) == disk[p] # Absent

\* git stash push -u: saves the edits and, unless ignored, the untracked files
Untracked == IF ignored THEN {} ELSE {p \in Paths : Present(p)}
NothingToStash == dirty = {} /\ Untracked = {}
StashEntry == [edits |-> dirty, files |-> [p \in Paths |-> IF p \in Untracked THEN disk[p] ELSE Absent]]
DiskAfterPush == [p \in Paths |-> IF p \in Untracked THEN Absent ELSE disk[p]]

\* git stash pop: refuses (and keeps the entry) when the stack is empty, when
\* an edited file is also edited in the entry, or when an untracked file of the
\* entry exists in the working directory
CanPop ==
  /\ isRepo
  /\ stash # <<>>
  /\ Head(stash).edits \cap dirty = {}
  /\ \A p \in Paths : Head(stash).files[p] # Absent => ~Present(p)
DiskAfterPop ==
  [p \in Paths |-> IF Head(stash).files[p] # Absent THEN Head(stash).files[p] ELSE disk[p]]

-----------------------------------------------------------------------------
(* Comparisons *)

Procs == {"A", "B"}
Main == "A"

\* execSync is called without a timeout option: 0 = the child is never killed
ExecSyncTimeout == 0

\* what the environment does to a git command or a crawl: it runs, it fails
\* (lock file, I/O error), or it never completes
Outcomes == {"ok", "fail", "hang"}
Allowed(o) == o = "ok" \/ faults < MaxFaults
Charge(o) == faults' = IF o = "ok" THEN faults ELSE faults + 1
Blocks(o) == o = "hang" /\ ExecSyncTimeout = 0

\* what a crawl of the working tree sees: the checked-out commit and the edits
TreeNow == [commit |-> head.commit, edits |-> dirty]
NoNodes == [commit |-> "", edits |-> {}]
Snapshot(nodes) == [k |-> "snapshot", nodes |-> nodes]

\* the content version of a file in a crawled tree
VersionIn(nodes, f) ==
  IF f \in nodes.edits THEN "edit"
  ELSE IF nodes.commit \in Commits THEN CommitTree[nodes.commit][f] ELSE "none"

\* SchemaDiffer.diffMany: the artifacts that differ between the two snapshots
diffMany(baseNodes, headNodes) ==
  {f \in Files : VersionIn(baseNodes, f) # VersionIn(headNodes, f)}

NoResult == [status |-> "none", diffs |-> {}, filesChanged |-> {}]
NoLocals ==
  [mode |-> "none", baseRef |-> "", headRef |-> "", baseCommit |-> "",
   headCommit |-> "", filesChanged |-> {}, currentBranch |-> "",
   hasStash |-> FALSE, baseNodes |-> NoNodes, headNodes |-> NoNodes,
   pending |-> "none", result |-> NoResult]

RepoState == [head |-> head, stash |-> stash, dirty |-> dirty, disk |-> disk]

Goto(p, l) == pc' = [pc EXCEPT ![p] = l]
Logged(p, cmd, arg, ok) ==
  log' = [log EXCEPT ![p] = Append(@, [cmd |-> cmd, arg |-> arg, ok |-> ok])]
\* the child process never exits and execSync never returns
Block(p, cmd, arg) ==
  /\ Goto(p, "blocked")
  /\ UNCHANGED <<isRepo, head, stash, dirty, disk, ignored, loc, log, before, runs, others>>
Threw(l) == [l EXCEPT !.result = [NoResult EXCEPT !.status = "error"]]
Returned(l, diffs, files) ==
  [l EXCEPT !.result = [status |-> "ok", diffs |-> diffs, filesChanged |-> files]]

Finished(p) == pc[p] \in {"idle", "returned", "threw"}

BaseRefs == {"c0", "c2", "nope"}
HeadRefs == {"HEAD", "c1"}

InitStashes == {<<>>} \cup
  {<<[edits |-> e, files |-> [p \in Paths |-> Absent]]>> : e \in {{F_readme}, {F_TradeDto}}}
InitHeads == {[branch |-> "main", commit |-> BranchTip["main"]],
              [branch |-> NoBranch, commit |-> "c1"],
              [branch |-> NoBranch, commit |-> "c2"]}
InitDisks ==
  {[p \in Paths |-> Absent],
   [p \in Paths |-> IF p = GraphPath THEN [k |-> "graph"]
                    ELSE IF p = StatePath THEN [k |-> "state"] ELSE Absent]}

Init ==
  /\ isRepo \in BOOLEAN
  /\ head \in InitHeads
  /\ stash \in InitStashes
  /\ dirty \in SUBSET Files
  /\ disk \in InitDisks
  /\ ignored \in BOOLEAN
  /\ ~isRepo => /\ head = [branch |-> NoBranch, commit |-> "c1"]
                /\ stash = <<>> /\ dirty = {} /\ ignored
  /\ pc = [p \in Procs |-> "idle"]
  /\ loc = [p \in Procs |-> NoLocals]
  /\ log = [p \in Procs |-> <<>>]
  /\ before = [p \in Procs |-> RepoState]
  /\ faults = 0
  /\ runs = 0
  /\ tree = <<>> /\ ledger = <<>> /\ cli = <<>> /\ edits = 0
  /\ graph = <<>> /\ args = <<>> /\ result = <<>>

\* a call of scanCommitRange(baseRef, headRef)
scanCommitRange(p) ==
  /\ Finished(p)
  /\ runs < MaxRuns
  /\ \E b \in BaseRefs, h \in HeadRefs :
       loc' = [loc EXCEPT ![p] = [NoLocals EXCEPT !.mode = "commit-range",
                                                  !.baseRef = b, !.headRef = h]]
  /\ Goto(p, "cr_resolveBase")
  /\ log' = [log EXCEPT ![p] = <<>>]
  /\ before' = [before EXCEPT ![p] = RepoState]
  /\ runs' = runs + 1
  /\ UNCHANGED <<isRepo, head, stash, dirty, disk, ignored, faults, others>>

\* a call of scanUncommittedChanges()
scanUncommittedChanges(p) ==
  /\ Finished(p)
  /\ runs < MaxRuns
  /\ loc' = [loc EXCEPT ![p] = [NoLocals EXCEPT !.mode = "working-tree"]]
  /\ Goto(p, "wt_getCommit")
  /\ log' = [log EXCEPT ![p] = <<>>]
  /\ before' = [before EXCEPT ![p] = RepoState]
  /\ runs' = runs + 1
  /\ UNCHANGED <<isRepo, head, stash, dirty, disk, ignored, faults, others>>

-----------------------------------------------------------------------------
(* scanCommitRange, statement by statement *)

NoChanges_Never(filesChanged) == FALSE

\* filesChanged.length === 0
NoChanges(filesChanged) == filesChanged = {}

OnResolveError_Continue(next) == next

\* resolveRef / getCurrentCommit: the catch block rethrows
OnResolveError(next) == "threw"

CommitRangeOnError_NoFinally == "threw"

\* the try block of scanCommitRange ends in finally, also on a throw
CommitRangeOnError == "cr_finally"

Frame(p) == UNCHANGED <<isRepo, ignored, before, runs, others>>

\* const baseCommit = this.resolveRef(baseRef)
crResolveBase(p) ==
  /\ pc[p] = "cr_resolveBase"
  /\ \E o \in Outcomes :
       /\ Allowed(o) /\ Charge(o)
       /\ LET ref == loc[p].baseRef
              ok == o = "ok" /\ CanResolve(ref)
          IN IF Blocks(o) THEN Block(p, "rev-parse", ref)
             ELSE /\ Logged(p, "rev-parse", ref, ok)
                  /\ IF ok
                       THEN /\ loc' = [loc EXCEPT ![p].baseCommit = RevParse(ref)]
                            /\ Goto(p, "cr_resolveHead")
                       ELSE /\ loc' = [loc EXCEPT ![p] = Threw(@)]
                            /\ Goto(p, OnResolveError("cr_resolveHead"))
                  /\ UNCHANGED <<head, stash, dirty, disk>>
                  /\ Frame(p)

\* const headCommit = this.resolveRef(headRef)
crResolveHead(p) ==
  /\ pc[p] = "cr_resolveHead"
  /\ \E o \in Outcomes :
       /\ Allowed(o) /\ Charge(o)
       /\ LET ref == loc[p].headRef
              ok == o = "ok" /\ CanResolve(ref)
          IN IF Blocks(o) THEN Block(p, "rev-parse", ref)
             ELSE /\ Logged(p, "rev-parse", ref, ok)
                  /\ IF ok
                       THEN /\ loc' = [loc EXCEPT ![p].headCommit = RevParse(ref)]
                            /\ Goto(p, "cr_listChanged")
                       ELSE /\ loc' = [loc EXCEPT ![p] = Threw(@)]
                            /\ Goto(p, OnResolveError("cr_listChanged"))
                  /\ UNCHANGED <<head, stash, dirty, disk>>
                  /\ Frame(p)

\* getChangedFilesBetweenCommits: git diff --name-only, filtered by extension;
\* [] when git fails
getChangedFilesBetweenCommits(ok, baseCommit, headCommit) ==
  IF ok THEN {f \in DiffNames(baseCommit, headCommit) : HasScannedExtension(f)}
  ELSE {}

\* const filesChanged = ...; if (filesChanged.length === 0) return {...}
crListChanged(p) ==
  /\ pc[p] = "cr_listChanged"
  /\ \E o \in Outcomes :
       /\ Allowed(o) /\ Charge(o)
       /\ LET ok == /\ o = "ok" /\ isRepo
                    /\ loc[p].baseCommit \in Commits /\ loc[p].headCommit \in Commits
              files == getChangedFilesBetweenCommits(ok, loc[p].baseCommit, loc[p].headCommit)
          IN IF Blocks(o) THEN Block(p, "diff", "")
             ELSE /\ Logged(p, "diff", "", ok)
                  /\ IF NoChanges(files)
                       THEN /\ loc' = [loc EXCEPT ![p] = Returned([@ EXCEPT !.filesChanged = files], {}, {})]
                            /\ Goto(p, "returned")
                       ELSE /\ loc' = [loc EXCEPT ![p].filesChanged = files]
                            /\ Goto(p, "cr_getBranch")
                  /\ UNCHANGED <<head, stash, dirty, disk>>
                  /\ Frame(p)

\* getCurrentBranch: the branch name, HEAD when detached, HEAD when git fails
getCurrentBranch(ok) == IF ok THEN AbbrevRef ELSE "HEAD"

crGetBranch_NotRecorded(p) ==
  /\ pc[p] = "cr_getBranch"
  /\ Goto(p, "cr_checkoutBase")
  /\ UNCHANGED <<head, stash, dirty, disk, loc, log, faults>>
  /\ Frame(p)

\* const currentBranch = this.getCurrentBranch()
crGetBranch(p) ==
  /\ pc[p] = "cr_getBranch"
  /\ \E o \in Outcomes :
       /\ Allowed(o) /\ Charge(o)
       /\ LET ok == o = "ok" /\ isRepo
          IN IF Blocks(o) THEN Block(p, "abbrev-ref", "")
             ELSE /\ Logged(p, "abbrev-ref", "", ok)
                  /\ loc' = [loc EXCEPT ![p].currentBranch = getCurrentBranch(ok)]
                  /\ Goto(p, "cr_checkoutBase")
                  /\ UNCHANGED <<head, stash, dirty, disk>>
                  /\ Frame(p)

\* execSync(`git checkout ${baseCommit}`), before the try block
crCheckoutBase(p) ==
  /\ pc[p] = "cr_checkoutBase"
  /\ \E o \in Outcomes :
       /\ Allowed(o) /\ Charge(o)
       /\ LET target == loc[p].baseCommit
              ok == o = "ok" /\ CanCheckout(target)
          IN IF Blocks(o) THEN Block(p, "checkout", target)
             ELSE /\ Logged(p, "checkout", target, ok)
                  /\ IF ok
                       THEN /\ head' = HeadAfterCheckout(target)
                            /\ loc' = loc
                            /\ Goto(p, "cr_crawlBase")
                       ELSE /\ head' = head
                            /\ loc' = [loc EXCEPT ![p] = Threw(@)]
                            /\ Goto(p, "threw")
                  /\ UNCHANGED <<stash, dirty, disk>>
                  /\ Frame(p)

\* new GraphEngine('.dotto-baseline.json'); await baseCrawler.crawl()
crCrawlBase(p) ==
  /\ pc[p] = "cr_crawlBase"
  /\ \E o \in Outcomes :
       /\ Allowed(o) /\ Charge(o)
       /\ IF Blocks(o) THEN Block(p, "crawl", BaseEnginePath)
          ELSE /\ Logged(p, "crawl", BaseEnginePath, o = "ok")
               /\ IF o = "ok"
                    THEN /\ disk' = [disk EXCEPT ![BaseEnginePath] = Snapshot(TreeNow)]
                         /\ loc' = [loc EXCEPT ![p].baseNodes = TreeNow]
                         /\ Goto(p, "cr_checkoutHead")
                    ELSE /\ disk' = disk
                         /\ loc' = [loc EXCEPT ![p].pending = "throw"]
                         /\ Goto(p, CommitRangeOnError)
               /\ UNCHANGED <<head, stash, dirty>>
               /\ Frame(p)

\* execSync(`git checkout ${headCommit}`)
crCheckoutHead(p) ==
  /\ pc[p] = "cr_checkoutHead"
  /\ \E o \in Outcomes :
       /\ Allowed(o) /\ Charge(o)
       /\ LET target == loc[p].headCommit
              ok == o = "ok" /\ CanCheckout(target)
          IN IF Blocks(o) THEN Block(p, "checkout", target)
             ELSE /\ Logged(p, "checkout", target, ok)
                  /\ IF ok
                       THEN /\ head' = HeadAfterCheckout(target)
                            /\ loc' = loc
                            /\ Goto(p, "cr_crawlHead")
                       ELSE /\ head' = head
                            /\ loc' = [loc EXCEPT ![p].pending = "throw"]
                            /\ Goto(p, CommitRangeOnError)
                  /\ UNCHANGED <<stash, dirty, disk>>
                  /\ Frame(p)

\* new GraphEngine('.dotto-head.json'); await headCrawler.crawl()
crCrawlHead(p) ==
  /\ pc[p] = "cr_crawlHead"
  /\ \E o \in Outcomes :
       /\ Allowed(o) /\ Charge(o)
       /\ IF Blocks(o) THEN Block(p, "crawl", HeadEnginePath)
          ELSE /\ Logged(p, "crawl", HeadEnginePath, o = "ok")
               /\ IF o = "ok"
                    THEN /\ disk' = [disk EXCEPT ![HeadEnginePath] = Snapshot(TreeNow)]
                         /\ loc' = [loc EXCEPT ![p].headNodes = TreeNow]
                         /\ Goto(p, "cr_diff")
                    ELSE /\ disk' = disk
                         /\ loc' = [loc EXCEPT ![p].pending = "throw"]
                         /\ Goto(p, CommitRangeOnError)
               /\ UNCHANGED <<head, stash, dirty>>
               /\ Frame(p)

\* try { fs.unlinkSync(baseline); fs.unlinkSync(head) } catch (e) {}:
\* the first unlink that throws (no such file) skips the second
Cleanup ==
  IF ~Present(".dotto-baseline.json") THEN disk
  ELSE [p \in Paths |->
         IF p \in {".dotto-baseline.json", ".dotto-head.json"} THEN Absent ELSE disk[p]]

\* const diffs = differ.diffMany(baseNodes, headNodes); cleanup; return {...}
crDiff(p) ==
  /\ pc[p] = "cr_diff"
  /\ \E o \in {"ok", "fail"} :
       /\ Allowed(o) /\ Charge(o)
       /\ Logged(p, "diffMany", "", o = "ok")
       /\ IF o = "ok"
            THEN /\ disk' = Cleanup
                 /\ loc' = [loc EXCEPT ![p] =
                      [Returned(@, diffMany(@.baseNodes, @.headNodes), @.filesChanged)
                         EXCEPT !.pending = "return"]]
                 /\ Goto(p, "cr_finally")
            ELSE /\ disk' = disk
                 /\ loc' = [loc EXCEPT ![p].pending = "throw"]
                 /\ Goto(p, CommitRangeOnError)
       /\ UNCHANGED <<head, stash, dirty>>
       /\ Frame(p)

\* finally { execSync(`git checkout ${currentBranch}`) }: a throw here
\* replaces the pending return or throw
crFinally(p) ==
  /\ pc[p] = "cr_finally"
  /\ \E o \in Outcomes :
       /\ Allowed(o) /\ Charge(o)
       /\ LET target == loc[p].currentBranch
              ok == o = "ok" /\ CanCheckout(target)
          IN IF Blocks(o) THEN Block(p, "checkout", target)
             ELSE /\ Logged(p, "checkout", target, ok)
                  /\ head' = IF ok THEN HeadAfterCheckout(target) ELSE head
                  /\ IF ok /\ loc[p].pending = "return"
                       THEN /\ loc' = loc
                            /\ Goto(p, "returned")
                       ELSE /\ loc' = [loc EXCEPT ![p] = Threw(@)]
                            /\ Goto(p, "threw")
                  /\ UNCHANGED <<stash, dirty, disk>>
                  /\ Frame(p)

-----------------------------------------------------------------------------
(* scanUncommittedChanges, statement by statement *)

\* const headCommit = this.getCurrentCommit()
wtGetCommit(p) ==
  /\ pc[p] = "wt_getCommit"
  /\ \E o \in Outcomes :
       /\ Allowed(o) /\ Charge(o)
       /\ LET ok == o = "ok" /\ CanResolve("HEAD")
          IN IF Blocks(o) THEN Block(p, "rev-parse", "HEAD")
             ELSE /\ Logged(p, "rev-parse", "HEAD", ok)
                  /\ IF ok
                       THEN /\ loc' = [loc EXCEPT ![p].baseCommit = RevParse("HEAD"),
                                                  ![p].headCommit = "working-directory"]
                            /\ Goto(p, "wt_listChanged")
                       ELSE /\ loc' = [loc EXCEPT ![p] = Threw(@)]
                            /\ Goto(p, OnResolveError("wt_listChanged"))
                  /\ UNCHANGED <<head, stash, dirty, disk>>
                  /\ Frame(p)

\* getWorkingDirectoryChanges: git diff --name-only HEAD, filtered by
\* isSchemaFile; [] when git fails
getWorkingDirectoryChanges(ok) ==
  IF ok THEN {f \in dirty : isSchemaFile(f)} ELSE {}

\* const filesChanged = ...; if (filesChanged.length === 0) return {...}
wtListChanged(p) ==
  /\ pc[p] = "wt_listChanged"
  /\ \E o \in Outcomes :
       /\ Allowed(o) /\ Charge(o)
       /\ LET ok == o = "ok" /\ isRepo
              files == getWorkingDirectoryChanges(ok)
          IN IF Blocks(o) THEN Block(p, "diff", "HEAD")
             ELSE /\ Logged(p, "diff", "HEAD", ok)
                  /\ IF NoChanges(files)
                       THEN /\ loc' = [loc EXCEPT ![p] = Returned([@ EXCEPT !.filesChanged = files], {}, {})]
                            /\ Goto(p, "returned")
                       ELSE /\ loc' = [loc EXCEPT ![p].filesChanged = files]
                            /\ Goto(p, "wt_stash")
                  /\ UNCHANGED <<head, stash, dirty, disk>>
                  /\ Frame(p)

\* const hasStash = this.stashChanges(): true when git stash push -u exits 0
\* (also when it had nothing to save), false when it fails
wtStash(p) ==
  /\ pc[p] = "wt_stash"
  /\ \E o \in Outcomes :
       /\ Allowed(o) /\ Charge(o)
       /\ LET ok == o = "ok" /\ isRepo
          IN IF Blocks(o) THEN Block(p, "stash-push", "")
             ELSE /\ Logged(p, "stash-push", "", ok)
                  /\ IF ok /\ ~NothingToStash
                       THEN /\ stash' = <<StashEntry>> \o stash
                            /\ dirty' = {}
                            /\ disk' = DiskAfterPush
                       ELSE UNCHANGED <<stash, dirty, disk>>
                  /\ loc' = [loc EXCEPT ![p].hasStash = ok]
                  /\ Goto(p, "wt_crawlBase")
                  /\ UNCHANGED head
                  /\ Frame(p)

\* catch (error) { if (hasStash) this.unstashChanges(); throw error }
WorkingTreeOnError(hasStash) == IF hasStash THEN "wt_catch" ELSE "threw"

\* new GraphEngine('.dotto-baseline.json'); await baseCrawler.crawl();
\* if (hasStash) this.unstashChanges()
wtCrawlBase(p) ==
  /\ pc[p] = "wt_crawlBase"
  /\ \E o \in Outcomes :
       /\ Allowed(o) /\ Charge(o)
       /\ IF Blocks(o) THEN Block(p, "crawl", BaseEnginePath)
          ELSE /\ Logged(p, "crawl", BaseEnginePath, o = "ok")
               /\ IF o = "ok"
                    THEN /\ disk' = [disk EXCEPT ![BaseEnginePath] = Snapshot(TreeNow)]
                         /\ loc' = [loc EXCEPT ![p].baseNodes = TreeNow]
                         /\ Goto(p, IF loc[p].hasStash THEN "wt_unstash" ELSE "wt_crawlHead")
                    ELSE /\ disk' = disk
                         /\ loc' = [loc EXCEPT ![p] = Threw(@)]
                         /\ Goto(p, WorkingTreeOnError(loc[p].hasStash))
               /\ UNCHANGED <<head, stash, dirty>>
               /\ Frame(p)

\* unstashChanges: git stash pop; a failure is caught and only warned about
unstashChanges(p, o, next) ==
  LET ok == o = "ok" /\ CanPop
  IN IF Blocks(o) THEN Block(p, "stash-pop", "")
     ELSE /\ Logged(p, "stash-pop", "", ok)
          /\ IF ok
               THEN /\ dirty' = dirty \cup Head(stash).edits
                    /\ disk' = DiskAfterPop
                    /\ stash' = Tail(stash)
               ELSE UNCHANGED <<stash, dirty, disk>>
          /\ Goto(p, next)
          /\ UNCHANGED <<head, loc>>
          /\ Frame(p)

\* if (hasStash) { this.unstashChanges() } between the two crawls
wtUnstash(p) ==
  /\ pc[p] = "wt_unstash"
  /\ \E o \in Outcomes :
       /\ Allowed(o) /\ Charge(o)
       /\ unstashChanges(p, o, "wt_crawlHead")

\* new GraphEngine('.dotto-head.json'); await headCrawler.crawl()
wtCrawlHead(p) ==
  /\ pc[p] = "wt_crawlHead"
  /\ \E o \in Outcomes :
       /\ Allowed(o) /\ Charge(o)
       /\ IF Blocks(o) THEN Block(p, "crawl", HeadEnginePath)
          ELSE /\ Logged(p, "crawl", HeadEnginePath, o = "ok")
               /\ IF o = "ok"
                    THEN /\ disk' = [disk EXCEPT ![HeadEnginePath] = Snapshot(TreeNow)]
                         /\ loc' = [loc EXCEPT ![p].headNodes = TreeNow]
                         /\ Goto(p, "wt_diff")
                    ELSE /\ disk' = disk
                         /\ loc' = [loc EXCEPT ![p] = Threw(@)]
                         /\ Goto(p, WorkingTreeOnError(loc[p].hasStash))
               /\ UNCHANGED <<head, stash, dirty>>
               /\ Frame(p)

\* const diffs = differ.diffMany(baseNodes, headNodes); cleanup; return {...}
wtDiff(p) ==
  /\ pc[p] = "wt_diff"
  /\ \E o \in {"ok", "fail"} :
       /\ Allowed(o) /\ Charge(o)
       /\ Logged(p, "diffMany", "", o = "ok")
       /\ IF o = "ok"
            THEN /\ disk' = Cleanup
                 /\ loc' = [loc EXCEPT ![p] =
                      Returned(@, diffMany(@.baseNodes, @.headNodes), @.filesChanged)]
                 /\ Goto(p, "returned")
            ELSE /\ disk' = disk
                 /\ loc' = [loc EXCEPT ![p] = Threw(@)]
                 /\ Goto(p, WorkingTreeOnError(loc[p].hasStash))
       /\ UNCHANGED <<head, stash, dirty>>
       /\ Frame(p)

\* catch (error) { if (hasStash) { this.unstashChanges() } throw error }
wtCatch(p) ==
  /\ pc[p] = "wt_catch"
  /\ \E o \in Outcomes :
       /\ Allowed(o) /\ Charge(o)
       /\ unstashChanges(p, o, "threw")

-----------------------------------------------------------------------------
(* Specifications *)

\* the statements of a comparison that was started
Run(p) ==
  \/ crResolveBase(p)
  \/ crResolveHead(p)
  \/ crListChanged(p)
  \/ crGetBranch(p)
  \/ crCheckoutBase(p)
  \/ crCrawlBase(p)
  \/ crCheckoutHead(p)
  \/ crCrawlHead(p)
  \/ crDiff(p)
  \/ crFinally(p)
  \/ wtGetCommit(p)
  \/ wtListChanged(p)
  \/ wtStash(p)
  \/ wtCrawlBase(p)
  \/ wtUnstash(p)
  \/ wtCrawlHead(p)
  \/ wtDiff(p)
  \/ wtCatch(p)

Step(p) ==
  \/ scanCommitRange(p)
  \/ scanUncommittedChanges(p)
  \/ Run(p)

\* one comparison at a time: the caller awaits each call
Next == Step(Main)

Spec == Init /\ [][Next]_vars

\* two callers against the same repository: a repository on branch main with
\* an uncommitted edit of a schema file
InitConc ==
  /\ Init
  /\ isRepo
  /\ head = [branch |-> "main", commit |-> BranchTip["main"]]
  /\ stash = <<>>
  /\ dirty = {F_TradeDto}
  /\ disk = [p \in Paths |-> Absent]
  /\ ignored

NextConc == \E p \in Procs : Step(p)

SpecConc == InitConc /\ [][NextConc]_vars

-----------------------------------------------------------------------------
(* The scan and verify commands: artifacts.json and dotto_state.json *)

MaxCmds == 3
MaxEdits == 2

gitVars == <<isRepo, head, stash, dirty, ignored, pc, loc, log, before>>
pureVars == <<graph, args, result>>

\* candidate schema files, in glob order: U.dto.ts, u.schema.json, t.schema.json
SchemaFiles == << <<"U",".","d","t","o",".","t","s">>,
                  <<"u",".","s","c","h","e","m","a",".","j","s","o","n">>,
                  <<"t",".","s","c","h","e","m","a",".","j","s","o","n">> >>

\* the glob patterns **/*.dto.ts, **/*.schema.ts, **/*.schema.json
Patterns == << <<".","d","t","o",".","t","s">>,
               <<".","s","c","h","e","m","a",".","t","s">>,
               <<".","s","c","h","e","m","a",".","j","s","o","n">> >>

\* file contents; "bad" is text that JSON.parse rejects
NoFile == "none"
Contents == {"h1", "h2", "bad"}
JsonParses(content) == content # "bad"

\* glob(pattern): the files present whose name ends with the pattern's suffix
Glob(t, pattern) ==
  SelectSeq([i \in DOMAIN SchemaFiles |-> i],
            LAMBDA i : t[i] # NoFile /\ EndsWith(SchemaFiles[i], pattern))

\* [...new Set(files)]: first occurrences, in order
RECURSIVE Dedup(_)
Dedup(s) ==
  IF s = <<>> THEN <<>>
  ELSE LET r == Dedup(SubSeq(s, 1, Len(s) - 1))
       IN IF \E j \in DOMAIN r : r[j] = s[Len(s)] THEN r ELSE Append(r, s[Len(s)])

RECURSIVE GlobAll(_, _)
GlobAll(t, k) == IF k > Len(Patterns) THEN <<>> ELSE Glob(t, Patterns[k]) \o GlobAll(t, k + 1)

findSchemaFiles(t) == Dedup(GlobAll(t, 1))

\* sha256 of the content: equal exactly for equal contents
computeFileHash(content) == content

\* path.basename(filePath, path.extname(filePath))
BaseName(name) ==
  LET dots == {i \in DOMAIN name : name[i] = "."}
      lastDot == IF dots = {} THEN 0 ELSE CHOOSE i \in dots : \A j \in dots : j <= i
  IN IF lastDot > 1 THEN SubSeq(name, 1, lastDot - 1) ELSE name

StripSuffix(name, suffix) ==
  IF EndsWith(name, suffix) THEN SubSeq(name, 1, Len(name) - Len(suffix)) ELSE name

IsAlnum(c) ==
  \/ \E i \in DOMAIN UpperChars : c \in {UpperChars[i], LowerChars[i]}
  \/ c \in {"0","1","2","3","4","5","6","7","8","9"}

\* ASTParser.generateId
generateId(fileName) ==
  LET stripped == IF EndsWith(fileName, <<".","d","t","o">>)
                    THEN StripSuffix(fileName, <<".","d","t","o">>)
                    ELSE StripSuffix(fileName, <<".","s","c","h","e","m","a">>)
  IN LowerCase([i \in DOMAIN stripped |-> IF IsAlnum(stripped[i]) THEN stripped[i] ELSE "_"])

IsJson(f) == EndsWith(SchemaFiles[f], <<".","j","s","o","n">>)

\* the $ref targets / relative imports found in a content
Refs(content) == IF content = "h2" THEN {<<"t">>} ELSE {}

\* parseJsonSchema: JSON.parse throws inside the try block
ParseFails(f, content) == IsJson(f) /\ ~JsonParses(content)

\* ASTParser.parse
parse(f, content) ==
  [id |-> generateId(BaseName(SchemaFiles[f])),
   dependencies |-> IF ParseFails(f, content) THEN {} ELSE Refs(content)]

ArtifactsPath == "artifacts.json"

\* hederaTxId undefined
NoTx == 0

\* readJsonFile<DottoState>(stateFile) || { lastScan, artifacts: {} }
ReadState == IF disk[StatePath] = Absent THEN <<>> ELSE disk[StatePath].artifacts

\* readJsonFile<ArtifactGraph>(artifactsFile); null when the file is absent
ReadArtifacts == IF disk[ArtifactsPath] = Absent THEN <<>> ELSE disk[ArtifactsPath].artifacts

\* one iteration of the for loop of scanCommand
Scanned(f, previousState) ==
  LET hash == computeFileHash(tree[f])
      parsed == parse(f, tree[f])
      known == parsed.id \in DOMAIN previousState
      status == IF ~known THEN "changed"
                ELSE IF previousState[parsed.id].hash = hash THEN "verified"
                ELSE IF previousState[parsed.id].tx # NoTx THEN "drifted" ELSE "changed"
  IN [id |-> parsed.id, f |-> f, hash |-> hash, dependencies |-> parsed.dependencies,
      status |-> status, tx |-> IF known THEN previousState[parsed.id].tx ELSE NoTx]

\* artifacts.reduce / artifacts.forEach into a record keyed by id: last one wins
Keyed(state, artifacts) ==
  [id \in DOMAIN state \cup {artifacts[j].id : j \in DOMAIN artifacts} |->
     IF \E j \in DOMAIN artifacts : artifacts[j].id = id
       THEN LET j == CHOOSE j \in DOMAIN artifacts :
                       /\ artifacts[j].id = id
                       /\ \A k \in DOMAIN artifacts : artifacts[k].id = id => k <= j
            IN [hash |-> artifacts[j].hash, tx |-> artifacts[j].tx]
       ELSE state[id]]

ArtifactsContent(artifacts) == [k |-> "artifacts", artifacts |-> artifacts]
StateContent(state) == [k |-> "state", artifacts |-> state]

\* no command is running
CliIdle == [name |-> "none", pc |-> "idle"]
CliFree == cli.pc \in {"idle", "returned", "threw", "killed"}

\* what a file operation or a network call of a command does: it succeeds or throws
CliOutcomes == {"ok", "fail"}

CliFrame == UNCHANGED <<gitVars, pureVars, runs, edits>>

\* dotto scan: load the previous state and find the schema files
scanCommand ==
  /\ CliFree
  /\ runs < MaxCmds
  /\ runs' = runs + 1
  /\ LET files == findSchemaFiles(tree)
     IN cli' = [name |-> "scan",
                pc |-> IF Len(files) = 0 THEN "returned" ELSE "scan_file",
                previousState |-> ReadState, files |-> files, artifacts |-> <<>>,
                was |-> [disk |-> disk, tree |-> tree]]
  /\ UNCHANGED <<gitVars, pureVars, disk, tree, ledger, edits, faults>>

\* for (const file of files): hash, parse, classify, push
scanFile ==
  /\ cli.pc = "scan_file"
  /\ \E o \in CliOutcomes :
       /\ Allowed(o)
       /\ Charge(o)
       /\ IF o = "ok"
            THEN LET rest == Tail(cli.files)
                 IN cli' = [cli EXCEPT !.files = rest,
                                       !.artifacts = Append(@, Scanned(Head(cli.files), cli.previousState)),
                                       !.pc = IF rest = <<>> THEN "scan_writeArtifacts" ELSE "scan_file"]
            \* fs.readFileSync throws and nothing catches it
            ELSE cli' = [cli EXCEPT !.pc = "threw"]
  /\ UNCHANGED <<disk, tree, ledger>>
  /\ CliFrame

\* writeJsonFile(artifactsFile, artifactGraph)
scanWriteArtifacts ==
  /\ cli.pc = "scan_writeArtifacts"
  /\ \E o \in CliOutcomes :
       /\ Allowed(o)
       /\ Charge(o)
       /\ IF o = "ok"
            THEN /\ disk' = [disk EXCEPT ![ArtifactsPath] = ArtifactsContent(cli.artifacts)]
                 /\ cli' = [cli EXCEPT !.pc = "scan_writeState"]
            ELSE /\ cli' = [cli EXCEPT !.pc = "threw"]
                 /\ UNCHANGED disk
  /\ UNCHANGED <<tree, ledger>>
  /\ CliFrame

\* writeJsonFile(stateFile, newState)
scanWriteState ==
  /\ cli.pc = "scan_writeState"
  /\ \E o \in CliOutcomes :
       /\ Allowed(o)
       /\ Charge(o)
       /\ IF o = "ok"
            THEN /\ disk' = [disk EXCEPT ![StatePath] = StateContent(Keyed(<<>>, cli.artifacts))]
                 /\ cli' = [cli EXCEPT !.pc = "returned"]
            ELSE /\ cli' = [cli EXCEPT !.pc = "threw"]
                 /\ UNCHANGED disk
  /\ UNCHANGED <<tree, ledger>>
  /\ CliFrame

\* artifacts with status changed or drifted, by position
ToVerify(artifacts) ==
  SelectSeq([j \in DOMAIN artifacts |-> j],
            LAMBDA j : artifacts[j].status \in {"changed", "drifted"})

\* dotto verify: load artifacts.json, pick what to verify, open the client
verifyCommand ==
  /\ CliFree
  /\ runs < MaxCmds
  /\ runs' = runs + 1
  /\ \E o \in CliOutcomes :
       /\ Allowed(o)
       /\ Charge(o)
       /\ LET artifacts == ReadArtifacts
              nothing == Len(artifacts) = 0 \/ Len(ToVerify(artifacts)) = 0
          IN cli' = [name |-> "verify",
                     \* a failed client.initialize() is caught: the command returns
                     pc |-> IF nothing \/ o = "fail" THEN "returned" ELSE "verify_submit",
                     artifacts |-> artifacts, todo |-> ToVerify(artifacts),
                     was |-> [disk |-> disk, tree |-> tree]]
  /\ UNCHANGED <<gitVars, pureVars, disk, tree, ledger, edits>>

\* for (const artifact of toVerify): submit; a failure is caught and counted
verifySubmit ==
  /\ cli.pc = "verify_submit"
  /\ \E o \in CliOutcomes :
       /\ Allowed(o)
       /\ Charge(o)
       /\ LET j == Head(cli.todo)
              rest == Tail(cli.todo)
              next == IF rest = <<>> THEN "verify_writeArtifacts" ELSE "verify_submit"
          IN IF o = "ok"
               THEN /\ ledger' = Append(ledger, [id |-> cli.artifacts[j].id,
                                                 hash |-> cli.artifacts[j].hash])
                    /\ cli' = [cli EXCEPT !.todo = rest, !.pc = next,
                                          !.artifacts[j].tx = Len(ledger) + 1,
                                          !.artifacts[j].status = "verified"]
               ELSE /\ cli' = [cli EXCEPT !.todo = rest, !.pc = next]
                    /\ UNCHANGED ledger
  /\ UNCHANGED <<disk, tree>>
  /\ CliFrame

\* writeJsonFile(artifactsFile, artifactGraph)
verifyWriteArtifacts ==
  /\ cli.pc = "verify_writeArtifacts"
  /\ \E o \in CliOutcomes :
       /\ Allowed(o)
       /\ Charge(o)
       /\ IF o = "ok"
            THEN /\ disk' = [disk EXCEPT ![ArtifactsPath] = ArtifactsContent(cli.artifacts)]
                 /\ cli' = [cli EXCEPT !.pc = "verify_writeState"]
            ELSE /\ cli' = [cli EXCEPT !.pc = "threw"]
                 /\ UNCHANGED disk
  /\ UNCHANGED <<tree, ledger>>
  /\ CliFrame

\* read the state (or start an empty one), set the record of every artifact, write
verifyWriteState ==
  /\ cli.pc = "verify_writeState"
  /\ \E o \in CliOutcomes :
       /\ Allowed(o)
       /\ Charge(o)
       /\ IF o = "ok"
            THEN /\ disk' = [disk EXCEPT ![StatePath] = StateContent(Keyed(ReadState, cli.artifacts))]
                 /\ cli' = [cli EXCEPT !.pc = "returned"]
            ELSE /\ cli' = [cli EXCEPT !.pc = "threw"]
                 /\ UNCHANGED disk
  /\ UNCHANGED <<tree, ledger>>
  /\ CliFrame

\* the user interrupts the running command (SIGINT): it stops where it is
cancelCommand ==
  /\ ~CliFree
  /\ faults < MaxFaults
  /\ faults' = faults + 1
  /\ cli' = [cli EXCEPT !.pc = "killed"]
  /\ UNCHANGED <<disk, tree, ledger>>
  /\ CliFrame

\* between two commands the user creates, rewrites or deletes a schema file
editSchemaFile ==
  /\ CliFree
  /\ edits < MaxEdits
  /\ edits' = edits + 1
  /\ \E f \in DOMAIN SchemaFiles, c \in Contents \cup {NoFile} :
       /\ c # tree[f]
       /\ tree' = [tree EXCEPT ![f] = c]
  /\ UNCHANGED <<gitVars, pureVars, disk, ledger, cli, runs, faults>>

\* a project in which neither command has run yet
InitScan ==
  /\ isRepo = FALSE /\ head = <<>> /\ stash = <<>> /\ dirty = {} /\ ignored = FALSE
  /\ pc = <<>> /\ loc = <<>> /\ log = <<>> /\ before = <<>>
  /\ graph = <<>> /\ args = <<>> /\ result = <<>>
  /\ disk = [p \in {ArtifactsPath, StatePath} |-> Absent]
  /\ tree \in [DOMAIN SchemaFiles -> {NoFile, "h1"}]
  /\ ledger = <<>>
  /\ cli = CliIdle
  /\ edits = 0
  /\ faults = 0
  /\ runs = 0

NextScan ==
  \/ scanCommand
  \/ scanFile
  \/ scanWriteArtifacts
  \/ scanWriteState
  \/ verifyCommand
  \/ verifySubmit
  \/ verifyWriteArtifacts
  \/ verifyWriteState
  \/ cancelCommand
  \/ editSchemaFile

SpecScan == InitScan /\ [][NextScan]_vars

-----------------------------------------------------------------------------
(* The dependency graph: TypeScriptScanner.scan and GraphEngine.applyCrawlResult *)

\* TypeScript sources of the project
TsFiles == {"a.ts", "b.ts"}

\* a source text: the interfaces, classes, types and enums it declares and its
\* relative imports
TsContent ==
  [c \in {"e", "i", "x", "xi", "xy", "xyi"} |->
     [decls |-> IF c \in {"x", "xi"} THEN {"X"} ELSE IF c \in {"xy", "xyi"} THEN {"X", "Y"} ELSE {},
      imports |-> IF c \in {"i", "xi", "xyi"} THEN {"./b"} ELSE {}]]

\* generateId: `${relativePath}:${name}`
NodeId(filePath, name) == <<filePath, name>>

\* path.resolve(dirname(fromFile), importPath), relative to the working directory
resolveImportId(importPath, fromFile) == IF importPath = "./b" THEN "b" ELSE importPath

scan_EdgesFromFile(filePath, fileHash) ==
  [nodes |-> {[id |-> NodeId(filePath, n), fileHash |-> fileHash] : n \in TsContent[fileHash].decls},
   edges |-> {[source |-> filePath, target |-> resolveImportId(dep, filePath), confidence |-> 9] :
                dep \in TsContent[fileHash].imports}]

\* TypeScriptScanner.scan: a node per declaration, and an edge from each node to
\* each relative import of the file (confidence 0.9, in tenths)
scan(filePath, fileHash) ==
  LET nodes == {[id |-> NodeId(filePath, n), fileHash |-> fileHash] : n \in TsContent[fileHash].decls}
  IN [nodes |-> nodes,
      edges |-> {[source |-> node.id, target |-> resolveImportId(dep, filePath), confidence |-> 9] :
                   node \in nodes, dep \in TsContent[fileHash].imports}]

NoGraph == [nodes |-> {}, edges |-> {}]
Ids(nodes) == {n.id : n \in nodes}

\* the crawl: scan every file and sort the nodes into added, modified, removed
CrawlResult(g, t) ==
  LET scans == {scan(f, t[f]) : f \in {f \in TsFiles : t[f] # NoFile}}
      nodes == UNION {s.nodes : s \in scans}
  IN [nodes |-> nodes,
      edges |-> UNION {s.edges : s \in scans},
      added |-> {n \in nodes : n.id \notin Ids(g.nodes)},
      modified |-> {n \in nodes : n.id \in Ids(g.nodes) /\ n \notin g.nodes},
      removed |-> Ids(g.nodes) \ Ids(nodes)]

\* GraphEngine.applyCrawlResult: replace the added and modified nodes and their
\* outbound edges; delete the removed nodes and every edge they are an end of
applyCrawlResult(g, r) ==
  LET changed == Ids(r.added \cup r.modified)
  IN [nodes |-> {n \in g.nodes : n.id \notin r.removed \cup changed} \cup r.added \cup r.modified,
      edges |-> {e \in g.edges : /\ e.source \notin r.removed \cup changed
                                 /\ e.target \notin r.removed} \cup r.edges]

\* dotto crawl
crawl ==
  /\ result' = CrawlResult(graph, tree)
  /\ graph' = applyCrawlResult(graph, result')
  /\ UNCHANGED <<gitVars, disk, tree, ledger, cli, edits, faults, runs, args>>

\* a source file is created, rewritten or deleted
editSource ==
  /\ \E f \in TsFiles, c \in DOMAIN TsContent \cup {NoFile} :
       /\ c # tree[f]
       /\ tree' = [tree EXCEPT ![f] = c]
  /\ UNCHANGED <<gitVars, disk, ledger, cli, edits, faults, runs, graph, args, result>>

InitGraph ==
  /\ isRepo = FALSE /\ head = <<>> /\ stash = <<>> /\ dirty = {} /\ ignored = FALSE
  /\ pc = <<>> /\ loc = <<>> /\ log = <<>> /\ before = <<>>
  /\ disk = <<>> /\ ledger = <<>> /\ cli = <<>> /\ edits = 0 /\ faults = 0 /\ runs = 0
  /\ args = <<>>
  /\ tree = [f \in TsFiles |-> NoFile]
  /\ graph = NoGraph
  /\ result = CrawlResult(NoGraph, tree)

NextGraph == crawl \/ editSource

SpecGraph == InitGraph /\ [][NextGraph]_vars

-----------------------------------------------------------------------------
(* The Diff Engine: SchemaDiffer.diffOne and diffMany *)

\* an absent node, and the result "no diff"
Null == [k |-> "null"]
\* the call has not returned yet
NotCalled == [k |-> "none"]

\* the property lists compared: properties named p and q, each at most once
PropertyNames == {"p", "q"}
Properties == [name : PropertyNames, declaredType : {"number", "string"}, required : BOOLEAN]
PropertyLists ==
  {l \in UNION {[1..n -> Properties] : n \in 0..Cardinality(PropertyNames)} :
     \A i, j \in DOMAIN l : l[i].name = l[j].name => i = j}

NamesOf(properties) == [i \in DOMAIN properties |-> properties[i].name]
Has(properties, name) == \E i \in DOMAIN properties : properties[i].name = name
Prop(properties, name) == properties[CHOOSE i \in DOMAIN properties : properties[i].name = name]

RemovedBreaks_OnlyRequired(oldProperty) == oldProperty.required

\* a property present only in old: breaking whatever its required flag was
RemovedBreaks(oldProperty) == TRUE

\* the changes of one property name
PropertyChanges(old, new, name) ==
  IF ~Has(old, name)
    THEN <<[kind |-> "added", name |-> name, breaking |-> Prop(new, name).required]>>
  ELSE IF ~Has(new, name)
    THEN <<[kind |-> "removed", name |-> name, breaking |-> RemovedBreaks(Prop(old, name))]>>
  ELSE (IF Prop(old, name).declaredType # Prop(new, name).declaredType
          THEN <<[kind |-> "type", name |-> name, breaking |-> TRUE]>> ELSE <<>>)
       \o
       (IF Prop(old, name).required # Prop(new, name).required
          THEN <<[kind |-> "required", name |-> name, breaking |-> Prop(new, name).required]>>
          ELSE <<>>)

RECURSIVE ChangesOver(_, _, _)
ChangesOver(old, new, names) ==
  IF names = <<>> THEN <<>>
  ELSE PropertyChanges(old, new, Head(names)) \o ChangesOver(old, new, Tail(names))

\* the SchemaDiff of two versions of a node that are not both absent
DiffOf(oldNode, newNode) ==
  IF oldNode = Null /\ newNode = Null THEN Null
  ELSE LET old == IF oldNode = Null THEN <<>> ELSE oldNode.properties
           new == IF newNode = Null THEN <<>> ELSE newNode.properties
           changes == ChangesOver(old, new,
                        NamesOf(old) \o SelectSeq(NamesOf(new), LAMBDA n : ~Has(old, n)))
       IN [nodeId |-> IF newNode = Null THEN oldNode.id ELSE newNode.id,
           changeType |-> IF oldNode = Null THEN "added"
                          ELSE IF newNode = Null THEN "removed" ELSE "modified",
           breaking |-> \E i \in DOMAIN changes : changes[i].breaking,
           changes |-> changes]

diffOne_IdenticalReported(oldNode, newNode) == DiffOf(oldNode, newNode)

\* SchemaDiffer.diffOne: null when both sides are absent or have equal ordered
\* property lists; otherwise the changes over the union of the property names
diffOne(oldNode, newNode) ==
  IF oldNode # Null /\ newNode # Null /\ oldNode.properties = newNode.properties
    THEN Null
    ELSE DiffOf(oldNode, newNode)

\* the artifact ids of the snapshots compared, in iteration order
DiffIds == <<"A", "B">>

\* SchemaDiffer.diffMany: diffOne over the union of the ids, nulls left out
RECURSIVE DiffEach(_, _, _)
DiffEach(old, new, ids) ==
  IF ids = <<>> THEN <<>>
  ELSE LET d == diffOne(old[Head(ids)], new[Head(ids)])
       IN (IF d = Null THEN <<>> ELSE <<d>>) \o DiffEach(old, new, Tail(ids))

diffSnapshots(oldSnapshot, newSnapshot) ==
  DiffEach(oldSnapshot, newSnapshot,
           SelectSeq(DiffIds, LAMBDA id : oldSnapshot[id] # Null \/ newSnapshot[id] # Null))

\* inputs of diffOne: two versions of node A; inputs of diffMany: two snapshots
\* whose nodes have at most the property p
DiffOneInputs == {Null} \cup {[id |-> "A", properties |-> l] : l \in PropertyLists}
SnapshotInputs ==
  [{DiffIds[i] : i \in DOMAIN DiffIds} ->
     {Null} \cup {[properties |-> l] : l \in {l \in PropertyLists : \A i \in DOMAIN l : l[i].name = "p"}}]
WithIds(snapshot) ==
  [id \in DOMAIN snapshot |->
     IF snapshot[id] = Null THEN Null ELSE [id |-> id, properties |-> snapshot[id].properties]]

callDiffOne ==
  /\ args.fn = "diffOne"
  /\ result = NotCalled
  /\ result' = diffOne(args.old, args.new)
  /\ UNCHANGED <<gitVars, disk, tree, ledger, cli, edits, faults, runs, graph, args>>

callDiffMany ==
  /\ args.fn = "diffMany"
  /\ result = NotCalled
  /\ result' = [diffs |-> diffSnapshots(args.old, args.new)]
  /\ UNCHANGED <<gitVars, disk, tree, ledger, cli, edits, faults, runs, graph, args>>

InitDiff ==
  /\ isRepo = FALSE /\ head = <<>> /\ stash = <<>> /\ dirty = {} /\ ignored = FALSE
  /\ pc = <<>> /\ loc = <<>> /\ log = <<>> /\ before = <<>>
  /\ disk = <<>> /\ tree = <<>> /\ ledger = <<>> /\ cli = <<>>
  /\ edits = 0 /\ faults = 0 /\ runs = 0
  /\ graph = NoGraph
  /\ args \in {[fn |-> "diffOne", old |-> o, new |-> n] : o, n \in DiffOneInputs}
            \cup {[fn |-> "diffMany", old |-> WithIds(o), new |-> WithIds(n)] : o, n \in SnapshotInputs}
  /\ result = NotCalled

NextDiff == callDiffOne \/ callDiffMany

SpecDiff == InitDiff /\ [][NextDiff]_vars

-----------------------------------------------------------------------------
(* The Impact Analyzer: ImpactAnalyzer.analyze and its callers *)

\* the nodes of the analysed graphs, in insertion order
ImpactNodes == <<"A", "B", "C", "D", "E">>

\* the edges the analysed graphs are drawn from (confidence in percent): C uses
\* A directly with low confidence and through B with high confidence; A, B, C,
\* D, E form a cycle; D has a dangling dependency
ImpactEdges ==
  {[source |-> "B", target |-> "A", confidence |-> 90],
   [source |-> "C", target |-> "A", confidence |-> 50],
   [source |-> "C", target |-> "B", confidence |-> 90],
   [source |-> "D", target |-> "C", confidence |-> 90],
   [source |-> "E", target |-> "D", confidence |-> 90],
   [source |-> "A", target |-> "E", confidence |-> 90],
   [source |-> "D", target |-> "x", confidence |-> 90]}

\* options.depth || 3
DefaultDepth == 3
DepthOption(depth) == IF depth = 0 THEN DefaultDepth ELSE depth

MarkVisited_Forgets(visited, found) == visited

\* first-seen distance wins: a node that was reached is never queued again
MarkVisited(visited, found) == visited \cup found

\* breadth-first over inbound edges, queue of [nodeId, distance, confidence]
RECURSIVE Traverse(_, _, _, _, _)
Traverse(g, queue, visited, maxDepth, downstream) ==
  IF queue = <<>> THEN downstream
  ELSE LET cur == Head(queue)
           inbound(n) == {e \in g.edges : e.source = n /\ e.target = cur.nodeId}
           sources == SelectSeq(ImpactNodes, LAMBDA n : n \notin visited /\ inbound(n) # {})
           found == [i \in DOMAIN sources |->
                       [nodeId |-> sources[i], distance |-> cur.distance + 1,
                        confidence |-> (cur.confidence * (CHOOSE e \in inbound(sources[i]) : TRUE).confidence) \div 100]]
       IN IF cur.distance >= maxDepth
            THEN Traverse(g, Tail(queue), visited, maxDepth, downstream)
            ELSE Traverse(g, Tail(queue) \o found,
                          MarkVisited(visited, {sources[i] : i \in DOMAIN sources}),
                          maxDepth, downstream \o found)

\* ImpactAnalyzer.analyze / GraphEngine.getDownstream
analyze(g, rootId, maxDepth) ==
  IF rootId \notin Ids(g.nodes)
    THEN [error |-> "NodeNotFound"]
    ELSE [error |-> "", root |-> rootId,
          downstream |-> Traverse(g, <<[nodeId |-> rootId, distance |-> 0, confidence |-> 100]>>,
                                  {rootId}, maxDepth, <<>>)]

OnAnalyzeError_EmptyReport(rootId) == [printed |-> "report", root |-> rootId, downstream |-> <<>>]

\* catch (error): the message and a hint are printed instead of a report
OnAnalyzeError(rootId) == [printed |-> "error", message |-> "NodeNotFound"]

\* dotto impact <nodeId> [--depth n]
impactCommand ==
  /\ args.fn = "impact"
  /\ result = NotCalled
  /\ LET analysis == analyze(graph, args.nodeId, DepthOption(args.depth))
     IN result' = IF analysis.error # "" THEN OnAnalyzeError(args.nodeId)
                  ELSE [printed |-> "report", root |-> analysis.root,
                        downstream |-> analysis.downstream]
  /\ UNCHANGED <<gitVars, disk, tree, ledger, cli, edits, faults, runs, graph, args>>

\* AuditPackExporter.generateImpactReport: the blast radius of the changed nodes
generateImpactReport ==
  /\ args.fn = "report"
  /\ result = NotCalled
  /\ result' =
       [impacted |->
          UNION {LET downstream == analyze(graph, n, 3).downstream
                 IN {downstream[i].nodeId : i \in DOMAIN downstream} : n \in args.changed}]
  /\ UNCHANGED <<gitVars, disk, tree, ledger, cli, edits, faults, runs, graph, args>>

InitImpact ==
  /\ isRepo = FALSE /\ head = <<>> /\ stash = <<>> /\ dirty = {} /\ ignored = FALSE
  /\ pc = <<>> /\ loc = <<>> /\ log = <<>> /\ before = <<>>
  /\ disk = <<>> /\ tree = <<>> /\ ledger = <<>> /\ cli = <<>>
  /\ edits = 0 /\ faults = 0 /\ runs = 0
  /\ \E edges \in SUBSET ImpactEdges :
       graph = [nodes |-> {[id |-> ImpactNodes[i]] : i \in DOMAIN ImpactNodes}, edges |-> edges]
  /\ args \in {[fn |-> "impact", nodeId |-> n, depth |-> d] : n \in {"A", "E", "Z"}, d \in 0..4}
            \cup {[fn |-> "report", changed |-> c] : c \in SUBSET {"A", "D"}}
  /\ result = NotCalled

NextImpact == impactCommand \/ generateImpactReport

SpecImpact == InitImpact /\ [][NextImpact]_vars

-----------------------------------------------------------------------------
(* The Intent Drift Detector: IntentDriftDetector.detectDrift *)

\* an intent is undefined (Null) or [text |-> characters]; '' is falsy like undefined
Falsy(intent) == intent = Null \/ intent.text = <<>>
TextOf(intent) == IF Falsy(intent) THEN <<"(","n","o","n","e",")">> ELSE intent.text

\* normalize: lower case, [^\w\s] to a space, runs of spaces to one, trim
normalize(text) ==
  LET lower == LowerCase(text)
      spaced == [i \in DOMAIN lower |->
                   IF IsAlnum(lower[i]) \/ lower[i] \in {"_", " "} THEN lower[i] ELSE " "]
      kept == SelectSeq([i \in DOMAIN spaced |-> i],
                        LAMBDA i : ~(spaced[i] = " " /\ i > 1 /\ spaced[i - 1] = " "))
      collapsed == [k \in DOMAIN kept |-> spaced[kept[k]]]
      first == IF collapsed # <<>> /\ Head(collapsed) = " " THEN 2 ELSE 1
      last == IF Len(collapsed) >= first /\ collapsed[Len(collapsed)] = " "
                THEN Len(collapsed) - 1 ELSE Len(collapsed)
  IN SubSeq(collapsed, first, last)

\* text.split(' '): the empty text gives one empty word
RECURSIVE Split(_)
Split(text) ==
  IF \A i \in DOMAIN text : text[i] # " " THEN <<text>>
  ELSE LET i == CHOOSE i \in DOMAIN text : text[i] = " " /\ \A j \in 1..(i - 1) : text[j] # " "
       IN <<SubSeq(text, 1, i - 1)>> \o Split(SubSeq(text, i + 1, Len(text)))

WordSet(words) == {words[i] : i \in DOMAIN words}

\* similarities are kept in thousandths, rounded down
jaccardSimilarity(text1, text2) ==
  LET words1 == WordSet(Split(text1))
      words2 == WordSet(Split(text2))
  IN IF words1 \cup words2 = {} THEN 0
     ELSE (Cardinality(words1 \cap words2) * 1000) \div Cardinality(words1 \cup words2)

\* the sum over the vocabulary of tf1(w) * tf2(w), taken word occurrence by occurrence
RECURSIVE Dot(_, _)
Dot(words1, words2) ==
  IF words1 = <<>> THEN 0
  ELSE Cardinality({j \in DOMAIN words2 : words2[j] = Head(words1)}) + Dot(Tail(words1), words2)

cosineSimilarity(text1, text2) ==
  LET words1 == Split(text1)
      words2 == Split(text2)
      squares == Dot(words1, words1) * Dot(words2, words2)
      ratio == (Dot(words1, words2) * Dot(words1, words2) * 1000000) \div squares
  IN IF squares = 0 THEN 0
     ELSE CHOOSE r \in 0..1000 : r * r <= ratio /\ (r + 1) * (r + 1) > ratio

levenshteinDistance(str1, str2) ==
  LET dp[i \in 0..Len(str1), j \in 0..Len(str2)] ==
        IF i = 0 THEN j
        ELSE IF j = 0 THEN i
        ELSE IF str1[i] = str2[j] THEN dp[i - 1, j - 1]
        ELSE 1 + (LET a == dp[i - 1, j]
                      b == dp[i, j - 1]
                      c == dp[i - 1, j - 1]
                  IN IF a <= b /\ a <= c THEN a ELSE IF b <= c THEN b ELSE c)
  IN dp[Len(str1), Len(str2)]

levenshteinSimilarity(text1, text2) ==
  LET maxLen == IF Len(text1) >= Len(text2) THEN Len(text1) ELSE Len(text2)
  IN IF maxLen = 0 THEN 1000
     ELSE ((maxLen - levenshteinDistance(text1, text2)) * 1000) \div maxLen

\* 0.4 jaccard + 0.4 cosine (both of the normalized texts) + 0.2 levenshtein (raw)
calculateSimilarity(intent1, intent2) ==
  (4 * jaccardSimilarity(normalize(intent1), normalize(intent2))
   + 4 * cosineSimilarity(normalize(intent1), normalize(intent2))
   + 2 * levenshteinSimilarity(intent1, intent2)) \div 10

determineSeverity_NoMedium(similarity) ==
  IF similarity < 500 THEN "high" ELSE "low"

determineSeverity(similarity) ==
  IF similarity < 500 THEN "high" ELSE IF similarity < 700 THEN "medium" ELSE "low"

\* explainDrift: the parts that are joined with '. '; a part is a label and the
\* (at most three) words listed after it
explainDrift(oldIntent, newIntent, similarity) ==
  LET oldWords == Dedup(Split(normalize(oldIntent)))
      newWords == Dedup(Split(normalize(newIntent)))
      added == SelectSeq(newWords, LAMBDA w : w \notin WordSet(oldWords))
      removed == SelectSeq(oldWords, LAMBDA w : w \notin WordSet(newWords))
      first3(s) == SubSeq(s, 1, IF Len(s) < 3 THEN Len(s) ELSE 3)
  IN (IF Len(removed) > 0 THEN <<[label |-> "Removed concepts", words |-> first3(removed)]>> ELSE <<>>)
     \o (IF Len(added) > 0 THEN <<[label |-> "Added concepts", words |-> first3(added)]>> ELSE <<>>)
     \o <<[label |-> IF similarity < 500 THEN "Fundamental semantic change detected"
                     ELSE IF similarity < 700 THEN "Moderate semantic shift"
                     ELSE "Minor wording change",
           words |-> <<>>]>>

SameIntent_Never(oldIntent, newIntent) == FALSE

\* oldIntent === newIntent
SameIntent(oldIntent, newIntent) == oldIntent = newIntent

OneSided_ByThreshold(threshold, nodeId, oldIntent, newIntent) ==
  [nodeId |-> nodeId, oldIntent |-> TextOf(oldIntent), newIntent |-> TextOf(newIntent),
   similarity |-> 0, isDrift |-> 0 < threshold, severity |-> "medium",
   explanation |-> <<[label |-> IF ~Falsy(oldIntent) THEN "Intent removed" ELSE "Intent added",
                      words |-> <<>>]>>]

\* the drift returned when exactly one intent is present
OneSided(threshold, nodeId, oldIntent, newIntent) ==
  [nodeId |-> nodeId, oldIntent |-> TextOf(oldIntent), newIntent |-> TextOf(newIntent),
   similarity |-> 0, isDrift |-> TRUE, severity |-> "medium",
   explanation |-> <<[label |-> IF ~Falsy(oldIntent) THEN "Intent removed" ELSE "Intent added",
                      words |-> <<>>]>>]

\* IntentDriftDetector.detectDrift, of a detector built with the given threshold
detectDrift(threshold, nodeId, oldIntent, newIntent) ==
  IF Falsy(oldIntent) /\ Falsy(newIntent) THEN Null
  ELSE IF SameIntent(oldIntent, newIntent) THEN Null
  ELSE IF Falsy(oldIntent) \/ Falsy(newIntent)
    THEN OneSided(threshold, nodeId, oldIntent, newIntent)
  ELSE LET similarity == calculateSimilarity(oldIntent.text, newIntent.text)
       IN [nodeId |-> nodeId, oldIntent |-> oldIntent.text, newIntent |-> newIntent.text,
           similarity |-> similarity, isDrift |-> similarity < threshold,
           severity |-> determineSeverity(similarity),
           explanation |-> explainDrift(oldIntent.text, newIntent.text, similarity)]

\* the intents compared: undefined, '', 'a b', 'a c', 'A b!', 'a b c', 'a b d'
Intents ==
  {Null} \cup {[text |-> t] : t \in {<<>>, <<"a"," ","b">>, <<"a"," ","c">>, <<"A"," ","b","!">>,
                                      <<"a"," ","b"," ","c">>, <<"a"," ","b"," ","d">>}}
\* the thresholds a detector is built with, in thousandths; 0.80 is the default
Thresholds == {0, 800, 1001}
\* the node ids of a batch
BatchIds == <<"A", "B">>

AllNodeIds_Concat(oldNodes, newNodes) ==
  SelectSeq(BatchIds, LAMBDA id : id \in DOMAIN oldNodes)
    \o SelectSeq(BatchIds, LAMBDA id : id \in DOMAIN newNodes)

\* new Set([...oldNodes.keys(), ...newNodes.keys()]); the keys of a map are
\* taken in the order of BatchIds
AllNodeIds(oldNodes, newNodes) ==
  Dedup(SelectSeq(BatchIds, LAMBDA id : id \in DOMAIN oldNodes)
          \o SelectSeq(BatchIds, LAMBDA id : id \in DOMAIN newNodes))

\* Map.get: undefined for a key the map does not have
MapGet(map, key) == IF key \in DOMAIN map THEN map[key] ELSE Null

\* IntentDriftDetector.detectBatchDrift
detectBatchDrift(threshold, oldNodes, newNodes) ==
  LET allNodeIds == AllNodeIds(oldNodes, newNodes)
      drifts == [i \in DOMAIN allNodeIds |->
                  detectDrift(threshold, allNodeIds[i],
                              MapGet(oldNodes, allNodeIds[i]), MapGet(newNodes, allNodeIds[i]))]
  IN SelectSeq(drifts, LAMBDA drift : drift # Null /\ drift.isDrift)

\* the maps compared: any keys among BatchIds, an undefined value included
BatchIntents ==
  {Null} \cup {[text |-> t] : t \in {<<"a"," ","b">>, <<"a"," ","c">>, <<"A"," ","b","!">>}}
IntentMaps == UNION {[keys -> BatchIntents] : keys \in SUBSET {BatchIds[i] : i \in DOMAIN BatchIds}}

callDetectBatchDrift ==
  /\ args.fn = "detectBatchDrift"
  /\ result = NotCalled
  /\ result' = [drifts |-> detectBatchDrift(args.threshold, args.old, args.new)]
  /\ UNCHANGED <<gitVars, disk, tree, ledger, cli, edits, faults, runs, graph, args>>

callDetectDrift ==
  /\ args.fn = "detectDrift"
  /\ result = NotCalled
  /\ result' = detectDrift(args.threshold, args.nodeId, args.old, args.new)
  /\ UNCHANGED <<gitVars, disk, tree, ledger, cli, edits, faults, runs, graph, args>>

InitDrift ==
  /\ isRepo = FALSE /\ head = <<>> /\ stash = <<>> /\ dirty = {} /\ ignored = FALSE
  /\ pc = <<>> /\ loc = <<>> /\ log = <<>> /\ before = <<>>
  /\ disk = <<>> /\ tree = <<>> /\ ledger = <<>> /\ cli = <<>>
  /\ edits = 0 /\ faults = 0 /\ runs = 0
  /\ graph = NoGraph
  /\ args \in [fn : {"detectDrift"}, threshold : Thresholds, nodeId : {"A", "B"},
               old : Intents, new : Intents]
              \cup [fn : {"detectBatchDrift"}, threshold : Thresholds,
                    old : IntentMaps, new : IntentMaps]
  /\ result = NotCalled

NextDrift == callDetectDrift \/ callDetectBatchDrift

SpecDrift == InitDrift /\ [][NextDrift]_vars

-----------------------------------------------------------------------------
(* The drift certificate: DriftCertificateGenerator and the commands that
   anchor and verify .dotto/driftpack.json *)

\* JSON.stringify(object, allowlist) of an object whose properties are strings
\* or numbers: an array replacer keeps, in every object, only the listed names
StringifyLeaves(object, allowlist) == [k \in DOMAIN object \cap allowlist |-> object[k]]

StringifyDrift(drift, allowlist) ==
  [k \in DOMAIN drift \cap allowlist |->
     IF k = "summary" THEN StringifyLeaves(drift.summary, allowlist)
     ELSE [i \in DOMAIN drift.changes |-> StringifyLeaves(drift.changes[i], allowlist)]]

\* JSON.stringify(data, allowlist) of a certificate without its proof; an
\* undefined intent is left out
Stringify(data, allowlist) ==
  [k \in {n \in DOMAIN data \cap allowlist : ~(n = "intent" /\ data[n] = Null)} |->
     CASE k = "version" -> data[k]
       [] k = "drift" -> StringifyDrift(data[k], allowlist)
       [] OTHER -> StringifyLeaves(data[k], allowlist)]

\* sha256 of the text, taken as collision-free: the text itself
Sha256(text) == text

\* DriftCertificateGenerator.computeHash: the allowlist is Object.keys(data)
computeHash(data) == Sha256(Stringify(data, DOMAIN data))

\* const certForHash = { ...certificate }; delete certForHash.proof
CertForHash(certificate) == [k \in DOMAIN certificate \ {"proof"} |-> certificate[k]]

\* nodeId.split(':')[0]
FileOf(nodeId) == nodeId[1]

\* DriftCertificateGenerator.generate; the clock reads "t0"
generate(drifts, metadata, intent) ==
  LET certificate ==
        [version |-> "1.0.0",
         metadata |-> [branch |-> metadata.branch, headCommit |-> metadata.headCommit,
                       timestamp |-> "t0"],
         drift |-> [summary |-> [breaking |-> Cardinality({i \in DOMAIN drifts : drifts[i].breaking}),
                                 nonBreaking |-> Cardinality({i \in DOMAIN drifts : ~drifts[i].breaking}),
                                 filesChanged |-> Cardinality({FileOf(drifts[i].nodeId) : i \in DOMAIN drifts})],
                    changes |-> drifts],
         intent |-> IF intent = Null THEN Null
                    ELSE [description |-> intent.description, timestamp |-> "t0"],
         proof |-> [hash |-> <<>>, algorithm |-> "sha256", backend |-> "none", transactionId |-> ""]]
  IN [certificate EXCEPT !.proof.hash = computeHash(CertForHash(certificate))]

\* DriftCertificateGenerator.verify
verify(certificate) == computeHash(CertForHash(certificate)) = certificate.proof.hash

\* DriftCertificateGenerator.addProof
addProof(certificate, backend, transactionId) ==
  [certificate EXCEPT !.proof.backend = backend, !.proof.transactionId = transactionId]

\* the changes a scan hands to generate
CertDrifts ==
  {<<>>,
   <<[nodeId |-> <<"a.ts", "A">>, breaking |-> TRUE]>>,
   <<[nodeId |-> <<"a.ts", "A">>, breaking |-> TRUE], [nodeId |-> <<"b.ts", "B">>, breaking |-> FALSE]>>}

\* what can be written into driftpack.json by hand, field by field
CertEdits ==
  [field : {"version"}, value : {"1.0.0", "2.0.0"}]
    \cup [field : {"branch"}, value : {"main", "dev"}]
    \cup [field : {"breaking"}, value : {0, 1}]
    \cup [field : {"changes"}, value : CertDrifts]
    \cup [field : {"description"}, value : {"fix", "approved"}]

Edited(certificate, e) ==
  CASE e.field = "version" -> [certificate EXCEPT !.version = e.value]
    [] e.field = "branch" -> [certificate EXCEPT !.metadata.branch = e.value]
    [] e.field = "breaking" -> [certificate EXCEPT !.drift.summary.breaking = e.value]
    [] e.field = "changes" -> [certificate EXCEPT !.drift.changes = e.value]
    [] OTHER -> IF certificate.intent = Null THEN certificate
                ELSE [certificate EXCEPT !.intent.description = e.value]

CertFrame == UNCHANGED <<gitVars, disk, tree, ledger, cli, faults, runs, graph, args>>

\* commands.ts scanCommand: generate and save the certificate
generateCertificate ==
  /\ args.fn = "certificate"
  /\ result = NotCalled
  /\ result' = [certificate |-> generate(args.drifts, args.metadata, args.intent),
                generated |-> generate(args.drifts, args.metadata, args.intent),
                report |-> "none"]
  /\ edits' = 0
  /\ CertFrame

\* driftpack.json is rewritten between the commands
editCertificate ==
  /\ args.fn = "certificate"
  /\ result # NotCalled /\ result.report = "none"
  /\ edits < MaxEdits
  /\ \E e \in CertEdits :
       /\ Edited(result.certificate, e) # result.certificate
       /\ result' = [result EXCEPT !.certificate = Edited(result.certificate, e)]
  /\ edits' = edits + 1
  /\ CertFrame

\* commands.ts anchorCommand, when the backend records the event
anchorCommand ==
  /\ args.fn = "certificate"
  /\ result # NotCalled /\ result.report = "none"
  /\ result.certificate.proof.transactionId = ""
  /\ result' = [result EXCEPT !.certificate = addProof(result.certificate, "hedera", "tx1")]
  /\ UNCHANGED edits
  /\ CertFrame

\* commands.ts verifyCommand(txId): the integrity check of the loaded certificate
verifyCertificate ==
  /\ args.fn = "certificate"
  /\ result # NotCalled /\ result.report = "none"
  /\ result' = [result EXCEPT !.report = IF verify(result.certificate) THEN "valid" ELSE "failed"]
  /\ UNCHANGED edits
  /\ CertFrame

InitCert ==
  /\ isRepo = FALSE /\ head = <<>> /\ stash = <<>> /\ dirty = {} /\ ignored = FALSE
  /\ pc = <<>> /\ loc = <<>> /\ log = <<>> /\ before = <<>>
  /\ disk = <<>> /\ tree = <<>> /\ ledger = <<>> /\ cli = <<>>
  /\ edits = 0 /\ faults = 0 /\ runs = 0
  /\ graph = NoGraph
  /\ args \in [fn : {"certificate"}, drifts : CertDrifts,
               metadata : [branch : {"main"}, headCommit : {"c1"}],
               intent : {Null, [description |-> "fix"]}]
  /\ result = NotCalled

NextCert == generateCertificate \/ editCertificate \/ anchorCommand \/ verifyCertificate

SpecCert == InitCert /\ [][NextCert]_vars

-----------------------------------------------------------------------------
(* The git-aware scan command: program.command('scan') and scanCommand of
   commands.ts, on top of the comparisons of GitScanner *)

\* an option that is not given, an options.base that is undefined
NoOption == ""

\* .option('--base <commit>', 'Base commit to compare against', 'HEAD'):
\* the value of options.base for what the command line holds
BaseOption(given) == IF given = NoOption THEN "HEAD" ELSE given

\* options.base ? scanCommitRange(options.base, 'HEAD') : scanUncommittedChanges()
ModeFor(base) == IF base # NoOption THEN "commit-range" ELSE "working-tree"

\* SchemaDiff.breaking of the change of a file: the changes of TDto.ts are
\* breaking, the others are not
IsBreaking(f) == f = F_TradeDto
HasBreaking(diffs) == \E f \in diffs : IsBreaking(f)

ExitCode_AlwaysZero(hasBreaking) == 0

\* if (hasBreaking) process.exit(1); otherwise the command returns
ExitCode(hasBreaking) == IF hasBreaking THEN 1 ELSE 0

Exited(code, caught) == [cli EXCEPT !.pc = "exited", !.exit = code, !.caught = caught]

CliGitFrame == UNCHANGED <<isRepo, head, stash, dirty, disk, ignored, tree, ledger, edits,
                           graph, args, result>>

\* `dotto scan` or `dotto scan --base <commit>` on the command line
dottoScan ==
  /\ cli.pc = "idle" /\ pc[Main] = "idle"
  /\ \E given \in {NoOption, "c0"} :
       cli' = [name |-> "scan", pc |-> "scan_getCommit", via |-> "command line",
               given |-> given, base |-> BaseOption(given), caught |-> FALSE, exit |-> 0]
  /\ UNCHANGED <<pc, loc, log, before, faults, runs>>
  /\ CliGitFrame

\* scanCommand(options) called by a program
callScanCommand ==
  /\ cli.pc = "idle" /\ pc[Main] = "idle"
  /\ \E base \in {NoOption, "c0"} :
       cli' = [name |-> "scan", pc |-> "scan_getCommit", via |-> "call",
               given |-> base, base |-> base, caught |-> FALSE, exit |-> 0]
  /\ UNCHANGED <<pc, loc, log, before, faults, runs>>
  /\ CliGitFrame

\* const currentCommit = gitScanner.getCurrentCommit()
scanGetCurrentCommit ==
  /\ cli.pc = "scan_getCommit"
  /\ \E o \in {"ok", "fail"} :
       /\ Allowed(o) /\ Charge(o)
       /\ cli' = IF o = "ok" /\ CanResolve("HEAD")
                   THEN [cli EXCEPT !.pc = "scan_compare"]
                   ELSE Exited(1, TRUE)
  /\ UNCHANGED <<pc, loc, log, before, runs>>
  /\ CliGitFrame

\* the call of gitScanner.scanCommitRange(options.base, 'HEAD') or of
\* gitScanner.scanUncommittedChanges()
scanCompare ==
  /\ cli.pc = "scan_compare"
  /\ cli' = [cli EXCEPT !.pc = "scan_await"]
  /\ IF ModeFor(cli.base) = "commit-range"
       THEN /\ loc' = [loc EXCEPT ![Main] = [NoLocals EXCEPT !.mode = "commit-range",
                                               !.baseRef = cli.base, !.headRef = "HEAD"]]
            /\ Goto(Main, "cr_resolveBase")
       ELSE /\ loc' = [loc EXCEPT ![Main] = [NoLocals EXCEPT !.mode = "working-tree"]]
            /\ Goto(Main, "wt_getCommit")
  /\ log' = [log EXCEPT ![Main] = <<>>]
  /\ before' = [before EXCEPT ![Main] = RepoState]
  /\ runs' = runs + 1
  /\ UNCHANGED faults
  /\ CliGitFrame

\* after the await: report, drift.json, intent, certificate, exit code; the
\* catch block exits with 1
scanReport ==
  /\ cli.pc = "scan_await"
  /\ pc[Main] \in {"returned", "threw"}
  /\ IF pc[Main] = "threw"
       THEN cli' = Exited(1, TRUE) /\ UNCHANGED faults
       ELSE \E o \in {"ok", "fail"} :
              /\ Allowed(o) /\ Charge(o)
              /\ cli' = IF o = "ok"
                          THEN Exited(ExitCode(HasBreaking(loc[Main].result.diffs)), FALSE)
                          ELSE Exited(1, TRUE)
  /\ UNCHANGED <<pc, loc, log, before, runs>>
  /\ CliGitFrame

InitCli ==
  /\ isRepo \in BOOLEAN
  /\ head \in InitHeads
  /\ stash = <<>>
  /\ dirty \in SUBSET Files
  /\ disk = [p \in Paths |-> Absent]
  /\ ignored = TRUE
  /\ ~isRepo => head = [branch |-> NoBranch, commit |-> "c1"] /\ dirty = {}
  /\ pc = [p \in Procs |-> "idle"]
  /\ loc = [p \in Procs |-> NoLocals]
  /\ log = [p \in Procs |-> <<>>]
  /\ before = [p \in Procs |-> RepoState]
  /\ faults = 0 /\ runs = 0
  /\ tree = <<>> /\ ledger = <<>> /\ edits = 0
  /\ graph = <<>> /\ args = <<>> /\ result = <<>>
  /\ cli = CliIdle

NextCli ==
  \/ dottoScan
  \/ callScanCommand
  \/ scanGetCurrentCommit
  \/ scanCompare
  \/ Run(Main)
  \/ scanReport

SpecCli == InitCli /\ [][NextCli]_vars

-----------------------------------------------------------------------------
(* compareCommits, statement by statement, next to the two scan methods *)

\* getChangedFiles: git diff --name-only base head, filtered by isSchemaFile
getChangedFiles(baseCommit, headCommit) ==
  {f \in DiffNames(RevParse(baseCommit), RevParse(headCommit)) : isSchemaFile(f)}

\* a call of compareCommits(baseCommit), headCommit = 'HEAD'
compareCommits(p) ==
  /\ Finished(p)
  /\ runs < MaxRuns
  /\ \E b \in BaseRefs :
       loc' = [loc EXCEPT ![p] = [NoLocals EXCEPT !.mode = "compare", !.baseRef = b,
                                                  !.headRef = "HEAD"]]
  /\ Goto(p, "cc_listChanged")
  /\ log' = [log EXCEPT ![p] = <<>>]
  /\ before' = [before EXCEPT ![p] = RepoState]
  /\ runs' = runs + 1
  /\ UNCHANGED <<isRepo, head, stash, dirty, disk, ignored, faults, others>>

\* const filesChanged = this.getChangedFiles(baseCommit, headCommit): throws
\* when git fails
ccListChanged(p) ==
  /\ pc[p] = "cc_listChanged"
  /\ \E o \in {"ok", "fail"} :
       /\ Allowed(o) /\ Charge(o)
       /\ LET ok == o = "ok" /\ CanResolve(loc[p].baseRef) /\ CanResolve(loc[p].headRef)
          IN /\ Logged(p, "diff", loc[p].baseRef, ok)
             /\ IF ok
                  THEN /\ loc' = [loc EXCEPT
                            ![p].baseCommit = loc[p].baseRef,
                            ![p].headCommit = loc[p].headRef,
                            ![p].filesChanged = getChangedFiles(loc[p].baseRef, loc[p].headRef)]
                       /\ Goto(p, "cc_crawlBase")
                  ELSE /\ loc' = [loc EXCEPT ![p] = Threw(@)]
                       /\ Goto(p, "threw")
       /\ UNCHANGED <<head, stash, dirty, disk>>
       /\ Frame(p)

\* new GraphEngine('.dotto-baseline.json'); await baseCrawler.crawl()
ccCrawlBase(p) ==
  /\ pc[p] = "cc_crawlBase"
  /\ \E o \in {"ok", "fail"} :
       /\ Allowed(o) /\ Charge(o)
       /\ Logged(p, "crawl", BaseEnginePath, o = "ok")
       /\ IF o = "ok"
            THEN /\ disk' = [disk EXCEPT ![BaseEnginePath] = Snapshot(TreeNow)]
                 /\ loc' = [loc EXCEPT ![p].baseNodes = TreeNow]
                 /\ Goto(p, "cc_crawlHead")
            ELSE /\ disk' = disk
                 /\ loc' = [loc EXCEPT ![p] = Threw(@)]
                 /\ Goto(p, "threw")
       /\ UNCHANGED <<head, stash, dirty>>
       /\ Frame(p)

\* new GraphEngine('.dotto-head.json'); await headCrawler.crawl()
ccCrawlHead(p) ==
  /\ pc[p] = "cc_crawlHead"
  /\ \E o \in {"ok", "fail"} :
       /\ Allowed(o) /\ Charge(o)
       /\ Logged(p, "crawl", HeadEnginePath, o = "ok")
       /\ IF o = "ok"
            THEN /\ disk' = [disk EXCEPT ![HeadEnginePath] = Snapshot(TreeNow)]
                 /\ loc' = [loc EXCEPT ![p].headNodes = TreeNow]
                 /\ Goto(p, "cc_diff")
            ELSE /\ disk' = disk
                 /\ loc' = [loc EXCEPT ![p] = Threw(@)]
                 /\ Goto(p, "threw")
       /\ UNCHANGED <<head, stash, dirty>>
       /\ Frame(p)

\* const diffs = differ.diffMany(baseNodes, headNodes); cleanup; return {...}
ccDiff(p) ==
  /\ pc[p] = "cc_diff"
  /\ \E o \in {"ok", "fail"} :
       /\ Allowed(o) /\ Charge(o)
       /\ Logged(p, "diffMany", "", o = "ok")
       /\ IF o = "ok"
            THEN /\ disk' = Cleanup
                 /\ loc' = [loc EXCEPT ![p] =
                      Returned(@, diffMany(@.baseNodes, @.headNodes), @.filesChanged)]
                 /\ Goto(p, "returned")
            ELSE /\ disk' = disk
                 /\ loc' = [loc EXCEPT ![p] = Threw(@)]
                 /\ Goto(p, "threw")
       /\ UNCHANGED <<head, stash, dirty>>
       /\ Frame(p)

\* the three entry points of GitScanner, one call at a time
NextCompare ==
  \/ Step(Main)
  \/ compareCommits(Main)
  \/ ccListChanged(Main)
  \/ ccCrawlBase(Main)
  \/ ccCrawlHead(Main)
  \/ ccDiff(Main)

SpecCompare == Init /\ [][NextCompare]_vars

-----------------------------------------------------------------------------
(* Vocabulary of the properties *)

Ended(p) == pc[p] \in {"returned", "threw"}
Mode(p) == loc[p].mode
Cmds(p) == {log[p][i].cmd : i \in DOMAIN log[p]}
StateCmds == {"checkout", "stash-push", "stash-pop"}
\* the changed-file list has been computed
Listed(p) == "diff" \in Cmds(p)
\* the first checkout of the log (the checkout of the base commit) succeeded
BaseCheckedOut(p) ==
  \E i \in DOMAIN log[p] :
    /\ log[p][i].cmd = "checkout" /\ log[p][i].ok
    /\ \A j \in 1..(i - 1) : log[p][j].cmd # "checkout"
PushSucceeded(p) ==
  \E i \in DOMAIN log[p] : log[p][i].cmd = "stash-push" /\ log[p][i].ok
AllPopsOk(p) ==
  \A i \in DOMAIN log[p] : log[p][i].cmd = "stash-pop" => log[p][i].ok
FailedStep(p) ==
  \E i \in DOMAIN log[p] : log[p][i].cmd \in {"crawl", "diffMany"} /\ ~log[p][i].ok
\* a restoration command (checkout of the recorded branch, stash pop) failed
RestoreFailed(p) ==
  \E i \in DOMAIN log[p] :
    /\ ~log[p][i].ok
    /\ \/ log[p][i].cmd = "stash-pop"
       \/ /\ log[p][i].cmd = "checkout" /\ i > 1
          /\ \E j \in 1..(i - 1) : log[p][j].cmd = "checkout" /\ log[p][j].ok
          /\ log[p][i].arg = loc[p].currentBranch

-----------------------------------------------------------------------------
(* Properties *)

\* C1: when a comparison returns or throws, the HEAD position, the stash stack
\* and the uncommitted edits are what they were when it was called (stated here
\* for the runs in which no git command and no crawl fails)
C1_StateRestored ==
  \A p \in Procs :
    (Ended(p) /\ faults = 0) =>
      /\ head = before[p].head
      /\ stash = before[p].stash
      /\ dirty = before[p].dirty

\* C2: in commit-range mode, once the base commit was checked out, the call
\* ends only after a checkout of the recorded branch was executed: it is the
\* last command of the call, after the base checkout
C2_RestoreOnEveryExit ==
  \A p \in Procs :
    (Ended(p) /\ Mode(p) = "commit-range" /\ BaseCheckedOut(p)) =>
      /\ Len(log[p]) >= 2
      /\ log[p][Len(log[p])].cmd = "checkout"
      /\ log[p][Len(log[p])].arg = loc[p].currentBranch
      /\ \E i \in 1..(Len(log[p]) - 1) : log[p][i].cmd = "checkout" /\ log[p][i].ok

\* a commit-range call that failed after the base checkout and ran the
\* restoring checkout
C2_Witness ==
  \E p \in Procs :
    /\ pc[p] = "threw" /\ Mode(p) = "commit-range"
    /\ BaseCheckedOut(p) /\ FailedStep(p)
    /\ log[p][Len(log[p])].cmd = "checkout" /\ log[p][Len(log[p])].ok

\* C3: in working-tree mode, when the stash push succeeded and a later step
\* failed, the error reaches the caller with the uncommitted edits back in the
\* working tree and the stash stack as it was (stated here for the runs in
\* which every stash pop the call executed succeeded)
C3_EditsBackOnFailure ==
  \A p \in Procs :
    (pc[p] = "threw" /\ Mode(p) = "working-tree" /\ PushSucceeded(p)
       /\ FailedStep(p) /\ AllPopsOk(p)) =>
      /\ dirty = before[p].dirty
      /\ stash = before[p].stash

\* C4: a comparison whose restoration step failed never returns a result
C4_RestoreFailureSurfaces ==
  \A p \in Procs : pc[p] = "returned" => ~RestoreFailed(p)

\* C5: while one comparison is between its first state-changing git command
\* and its restoration, no other comparison executes a checkout, a stash
\* command or a graph build
InCritical(p) ==
  \/ pc[p] \in {"cr_crawlBase", "cr_checkoutHead", "cr_crawlHead", "cr_diff", "cr_finally"}
  \/ pc[p] \in {"wt_crawlBase", "wt_unstash"} /\ loc[p].hasStash
ExecutedIn(q, cmds) ==
  /\ Len(log'[q]) = Len(log[q]) + 1
  /\ log'[q][Len(log'[q])].cmd \in cmds
C5_MutualExclusion ==
  [][\A p, q \in Procs :
       (p # q /\ InCritical(p)) => ~ExecutedIn(q, StateCmds \cup {"crawl"})]_vars

\* C6: once the changed-file list is found empty, the comparison has returned
\* diffs = [] and filesChanged = [] and has executed no checkout and no stash
C6_EmptyListTouchesNothing ==
  \A p \in Procs :
    (Listed(p) /\ loc[p].filesChanged = {}) =>
      /\ pc[p] = "returned"
      /\ loc[p].result = [status |-> "ok", diffs |-> {}, filesChanged |-> {}]
      /\ Cmds(p) \cap (StateCmds \cup {"crawl"}) = {}
      /\ head = before[p].head /\ stash = before[p].stash /\ dirty = before[p].dirty
      /\ disk = before[p].disk

\* a working-tree call that found uncommitted edits but no schema file among
\* them, and returned the empty result
C6_Witness ==
  \E p \in Procs :
    /\ pc[p] = "returned" /\ Mode(p) = "working-tree"
    /\ Listed(p) /\ loc[p].filesChanged = {}
    /\ log[p][Len(log[p])].ok
    /\ dirty # {}

\* C7: when no file that differs between the two states has a schema-like
\* name, the comparison executes no checkout, no stash and no graph build
DiffersOf(p) ==
  IF Mode(p) = "commit-range"
    THEN IF loc[p].baseCommit \in Commits /\ loc[p].headCommit \in Commits
           THEN DiffNames(loc[p].baseCommit, loc[p].headCommit) ELSE {}
    ELSE before[p].dirty
C7_OnlySchemaFilesTrigger ==
  \A p \in Procs :
    (Listed(p) /\ \A f \in DiffersOf(p) : ~isSchemaFile(f)) =>
      Cmds(p) \cap (StateCmds \cup {"crawl"}) = {}

\* C8: a failed ref resolution (not a repository, unknown ref) is the last
\* command of the comparison: it throws at once, after no checkout and no
\* stash, and the resolution is not attempted again
C8_ResolveFailureIsFatal ==
  \A p \in Procs :
    \A i \in DOMAIN log[p] :
      (log[p][i].cmd = "rev-parse" /\ ~log[p][i].ok) =>
        /\ i = Len(log[p])
        /\ pc[p] = "threw"
        /\ loc[p].result.status = "error"
        /\ Cmds(p) \cap (StateCmds \cup {"crawl"}) = {}
        /\ head = before[p].head /\ stash = before[p].stash /\ dirty = before[p].dirty

\* a call that threw on its first rev-parse: not a repository, or unknown ref
C8_Witness ==
  \E p \in Procs :
    /\ pc[p] = "threw" /\ faults = 0
    /\ Len(log[p]) = 1 /\ log[p][1].cmd = "rev-parse" /\ ~log[p][1].ok
    /\ (~isRepo \/ log[p][1].arg = "nope")

\* C9: no comparison blocks indefinitely on a git command or a crawl
C9_NeverBlocked ==
  \A p \in Procs : pc[p] # "blocked"

\* C10: when a comparison ends, the persisted graph and the persisted
\* fingerprint state are what they were when it was called
C10_PersistedStateUntouched ==
  \A p \in Procs :
    Ended(p) =>
      /\ disk[GraphPath] = before[p].disk[GraphPath]
      /\ disk[StatePath] = before[p].disk[StatePath]

-----------------------------------------------------------------------------
(* Properties of the scan and verify commands *)

ScanEndedEarly == cli.name = "scan" /\ cli.pc \in {"threw", "killed"}
ScanCompleted == cli.name = "scan" /\ cli.pc = "returned" /\ Len(cli.artifacts) > 0
ObservedIds(c) == {c.artifacts[j].id : j \in DOMAIN c.artifacts}
AllIds == {parse(f, "h1").id : f \in DOMAIN SchemaFiles}
FilesOf(id) == {f \in DOMAIN SchemaFiles : parse(f, "h1").id = id}

\* C11: a scan that throws or is cancelled part-way leaves artifacts.json and
\* dotto_state.json either both exactly as they were when it started, or both
\* written from the files it fully processed; never one written and not the other.
C11_NoPartialUpdate ==
  ScanEndedEarly =>
    \/ disk = cli.was.disk
    \/ /\ disk[ArtifactsPath] = ArtifactsContent(cli.artifacts)
       /\ disk[StatePath] = StateContent(Keyed(<<>>, cli.artifacts))

\* C12: when the extraction of a file fails, the scan still completes and the
\* fingerprint of that file's artifact keeps the content hash it had before
\* the scan (stated for artifacts that had a fingerprint before the scan).
C12_FailedFileKeepsFingerprint ==
  ScanCompleted =>
    \A j \in DOMAIN cli.artifacts :
      LET a == cli.artifacts[j]
      IN (ParseFails(a.f, cli.was.tree[a.f]) /\ a.id \in DOMAIN cli.previousState) =>
           /\ a.id \in DOMAIN ReadState
           /\ ReadState[a.id].hash = cli.previousState[a.id].hash

\* C13: a fingerprint record is created only by a scan that observes its id, is
\* deleted only by a scan that finds no file of that id, and after a completed
\* scan that observed the id it holds the hash that scan computed.
C13_FingerprintLifecycle ==
  [][\A id \in AllIds :
       /\ (id \notin DOMAIN ReadState /\ id \in DOMAIN ReadState') =>
            (cli'.name = "scan" /\ id \in ObservedIds(cli'))
       /\ (id \in DOMAIN ReadState /\ id \notin DOMAIN ReadState') =>
            (cli'.name = "scan" /\ \A f \in FilesOf(id) : tree[f] = NoFile)
       /\ (cli.pc = "scan_writeState" /\ cli'.pc = "returned" /\ id \in ObservedIds(cli')) =>
            (id \in DOMAIN ReadState' /\
             \E j \in DOMAIN cli'.artifacts :
               cli'.artifacts[j].id = id /\ cli'.artifacts[j].hash = ReadState'[id].hash)]_vars

-----------------------------------------------------------------------------
(* Properties of the dependency graph *)

Dangling(g) == {e \in g.edges : e.target \notin Ids(g.nodes)}

\* C14: every edge has a source that is a node: the scanner emits edges only
\* from nodes of the same scan result, after every crawl no edge of the graph
\* has a source outside the node set, and the edges the scanner emitted are in
\* the graph even when their target is not a node.
C14_EdgeSourcesAreNodes ==
  /\ \A e \in result.edges : e.source \in Ids(result.nodes)
  /\ \A e \in graph.edges : e.source \in Ids(graph.nodes)
  /\ result.edges \subseteq graph.edges

\* a crawl that added, modified and removed nodes, leaving a dangling edge
C14_Witness ==
  /\ result.added # {} /\ result.modified # {} /\ result.removed # {}
  /\ Dangling(graph) # {}

-----------------------------------------------------------------------------
(* Properties of the Diff Engine *)

DiffOneReturned == args.fn = "diffOne" /\ result \notin {NotCalled, Null}
OldProps == IF args.old = Null THEN <<>> ELSE args.old.properties
NewProps == IF args.new = Null THEN <<>> ELSE args.new.properties
\* the diff holds a change of this kind for this property, breaking or not
Reports(kind, name, breaking) ==
  \E i \in DOMAIN result.changes :
    result.changes[i] = [kind |-> kind, name |-> name, breaking |-> breaking]
ReportsKind(kind, name) == Reports(kind, name, TRUE) \/ Reports(kind, name, FALSE)

\* C15: per property name of either version: only in new and required is a
\* breaking change, only in new and optional a non-breaking one, only in old a
\* breaking one whatever its required flag, a different declaredType a breaking
\* one, required false->true a breaking one, required true->false a non-breaking
\* one; and the diff is breaking iff one of its changes is.
C15_ChangeClassification ==
  DiffOneReturned =>
    /\ \A name \in PropertyNames :
         /\ (~Has(OldProps, name) /\ Has(NewProps, name)) =>
              /\ Reports("added", name, Prop(NewProps, name).required)
              /\ ~Reports("added", name, ~Prop(NewProps, name).required)
         /\ (Has(OldProps, name) /\ ~Has(NewProps, name)) =>
              Reports("removed", name, TRUE) /\ ~Reports("removed", name, FALSE)
         /\ (Has(OldProps, name) /\ Has(NewProps, name)) =>
              /\ Prop(OldProps, name).declaredType # Prop(NewProps, name).declaredType
                   => Reports("type", name, TRUE) /\ ~Reports("type", name, FALSE)
              /\ (~Prop(OldProps, name).required /\ Prop(NewProps, name).required)
                   => Reports("required", name, TRUE) /\ ~Reports("required", name, FALSE)
              /\ (Prop(OldProps, name).required /\ ~Prop(NewProps, name).required)
                   => Reports("required", name, FALSE) /\ ~Reports("required", name, TRUE)
    /\ result.breaking <=> \E i \in DOMAIN result.changes : result.changes[i].breaking

\* an optional property removed and a required one added (scenario A's shape,
\* with the removed property optional)
C15_Witness ==
  /\ DiffOneReturned
  /\ Has(OldProps, "p") /\ ~Prop(OldProps, "p").required /\ ~Has(NewProps, "p")
  /\ Has(NewProps, "q") /\ Prop(NewProps, "q").required /\ ~Has(OldProps, "q")
  /\ result.breaking

DiffManyReturned == args.fn = "diffMany" /\ result # NotCalled
EntriesOf(id) == {i \in DOMAIN result.diffs : result.diffs[i].nodeId = id}

\* C16: diffMany covers the union of the ids: an id in exactly one snapshot has
\* exactly one entry, added when only in new and removed when only in old; an id
\* whose node is the same in both has none; and diffOne(n, n) is null.
C16_DiffCoverage ==
  /\ DiffManyReturned =>
       \A id \in DOMAIN args.old :
         /\ (args.old[id] = Null /\ args.new[id] # Null) =>
              /\ Cardinality(EntriesOf(id)) = 1
              /\ \A i \in EntriesOf(id) : result.diffs[i].changeType = "added"
         /\ (args.old[id] # Null /\ args.new[id] = Null) =>
              /\ Cardinality(EntriesOf(id)) = 1
              /\ \A i \in EntriesOf(id) : result.diffs[i].changeType = "removed"
         /\ args.old[id] = args.new[id] => EntriesOf(id) = {}
  /\ (args.fn = "diffOne" /\ result # NotCalled /\ args.old = args.new) => result = Null

\* one id added, the other unchanged and present in both
C16_Witness ==
  /\ DiffManyReturned
  /\ args.old["A"] = Null /\ args.new["A"] # Null
  /\ args.old["B"] # Null /\ args.old["B"] = args.new["B"]
  /\ Len(result.diffs) = 1

-----------------------------------------------------------------------------
(* Properties of the Impact Analyzer *)

\* the nodes within k inbound edges of the root
RECURSIVE Within(_, _)
Within(root, k) ==
  IF k = 0 THEN {root}
  ELSE LET w == Within(root, k - 1)
       IN w \cup {e.source : e \in {e \in graph.edges : e.target \in w}}
\* the length of the shortest chain of inbound edges from the root to n
Distance(root, n) == CHOOSE k \in 0..Len(ImpactNodes) : n \in Within(root, k) /\ \A j \in 0..(k - 1) : n \notin Within(root, j)
Reported == args.fn = "impact" /\ result # NotCalled /\ result.printed = "report"
MaxDepthUsed == IF args.depth = 0 THEN 3 ELSE args.depth

\* C17: the impact report lists each downstream node at most once, at the
\* length of the shortest chain of inbound edges from the root, and lists
\* exactly the nodes at distance 1 to maxDepth (3 when no depth is given);
\* the exporter's blast radius is the nodes within 3 of a changed node.
C17_ShortestDistanceBounded ==
  /\ Reported =>
       /\ \A i, j \in DOMAIN result.downstream :
            result.downstream[i].nodeId = result.downstream[j].nodeId => i = j
       /\ \A i \in DOMAIN result.downstream :
            /\ result.downstream[i].nodeId \in Within(args.nodeId, Len(ImpactNodes))
            /\ result.downstream[i].distance = Distance(args.nodeId, result.downstream[i].nodeId)
            /\ result.downstream[i].distance \in 1..MaxDepthUsed
       /\ {result.downstream[i].nodeId : i \in DOMAIN result.downstream}
            = Within(args.nodeId, MaxDepthUsed) \ {args.nodeId}
  /\ (args.fn = "report" /\ result # NotCalled) =>
       result.impacted = UNION {Within(n, 3) \ {n} : n \in args.changed}

\* C is reached directly with confidence 0.5 and through B with 0.9 * 0.9:
\* it is reported at distance 1, and E, four edges away, is not reported
C17_Witness ==
  /\ Reported
  /\ args.nodeId = "A" /\ args.depth = 0
  /\ {e \in ImpactEdges : e.source \in {"B", "C", "D", "E"}} \subseteq graph.edges
  /\ \E i \in DOMAIN result.downstream :
       result.downstream[i] = [nodeId |-> "C", distance |-> 1, confidence |-> 50]
  /\ \E i \in DOMAIN result.downstream : result.downstream[i].nodeId = "D"

\* C18: a root without inbound edges gives a report with an empty downstream
\* list and no error; a root id that is not a node gives the NodeNotFound error
\* and never a report.
C18_EmptyVersusNotFound ==
  (args.fn = "impact" /\ result # NotCalled) =>
    /\ (args.nodeId \in Ids(graph.nodes) /\ \A e \in graph.edges : e.target # args.nodeId) =>
         (result.printed = "report" /\ result.downstream = <<>>)
    /\ args.nodeId \notin Ids(graph.nodes) =>
         (result.printed = "error" /\ result.message = "NodeNotFound")

\* the unknown root Z, asked of a graph that has edges
C18_Witness ==
  /\ args.fn = "impact" /\ result # NotCalled
  /\ args.nodeId = "Z" /\ graph.edges # {}
  /\ result.printed = "error"

-----------------------------------------------------------------------------
(* Properties of the Intent Drift Detector *)

DriftReturned == args.fn = "detectDrift" /\ result # NotCalled
OnlyNew == Falsy(args.old) /\ ~Falsy(args.new)
OnlyOld == ~Falsy(args.old) /\ Falsy(args.new)
Explained(text) == result.explanation = <<[label |-> text, words |-> <<>>]>>

\* C19: detectDrift returns null, for every node id, when both intents are
\* absent or when the old and the new intent are the same text.
C19_NoDriftWhenAbsentOrSame ==
  (DriftReturned /\ ((Falsy(args.old) /\ Falsy(args.new)) \/ args.old = args.new))
    => result = Null

\* the same non-empty text on both sides, under a threshold above every similarity
C19_Witness ==
  /\ DriftReturned
  /\ ~Falsy(args.old) /\ args.old = args.new
  /\ args.threshold > 1000
  /\ result = Null

\* C20 as stated: with exactly one intent present the drift has similarity 0,
\* severity medium, explanation 'intent added' or 'intent removed', and is a
\* drift whatever the threshold.
C20_OneSidedDrift_AsStated ==
  (DriftReturned /\ (OnlyNew \/ OnlyOld)) =>
    /\ result # Null
    /\ result.similarity = 0 /\ result.severity = "medium" /\ result.isDrift
    /\ OnlyNew => Explained("intent added")
    /\ OnlyOld => Explained("intent removed")

\* C20 (amended): with exactly one intent present the drift has similarity 0,
\* severity medium, explanation 'Intent added' or 'Intent removed' (capital I),
\* and is a drift whatever the threshold.
C20_OneSidedDrift ==
  (DriftReturned /\ (OnlyNew \/ OnlyOld)) =>
    /\ result # Null
    /\ result.similarity = 0 /\ result.severity = "medium" /\ result.isDrift
    /\ OnlyNew => Explained("Intent added")
    /\ OnlyOld => Explained("Intent removed")

\* an intent removed, reported by a detector whose threshold is 0
C20_Witness ==
  /\ DriftReturned
  /\ OnlyOld /\ args.threshold = 0
  /\ result # Null /\ result.isDrift

BothDiffer == ~Falsy(args.old) /\ ~Falsy(args.new) /\ args.old # args.new
Tag == result.explanation[Len(result.explanation)].label
Bucket(similarity) ==
  IF similarity < 500 THEN [severity |-> "high", tag |-> "Fundamental semantic change detected"]
  ELSE IF similarity < 700 THEN [severity |-> "medium", tag |-> "Moderate semantic shift"]
  ELSE [severity |-> "low", tag |-> "Minor wording change"]

\* C21: when both intents are present and differ, isDrift is true exactly when
\* the similarity is below the threshold, the severity is high below 0.50,
\* medium from 0.50 to below 0.70 and low otherwise, and the last part of the
\* explanation is the tag of that same bucket.
C21_ThresholdAndSeverity ==
  (DriftReturned /\ BothDiffer) =>
    /\ result # Null
    /\ result.isDrift <=> (result.similarity < args.threshold)
    /\ result.severity = Bucket(result.similarity).severity
    /\ Tag = Bucket(result.similarity).tag

\* a medium drift under the default threshold
C21_Witness ==
  /\ DriftReturned /\ BothDiffer
  /\ args.threshold = 800
  /\ result.similarity >= 500 /\ result.similarity < 700
  /\ result.isDrift /\ result.severity = "medium"

BatchReturned == args.fn = "detectBatchDrift" /\ result # NotCalled
BatchKeys == DOMAIN args.old \cup DOMAIN args.new
DriftOf(id) == detectDrift(args.threshold, id, MapGet(args.old, id), MapGet(args.new, id))
EntriesFor(id) == {i \in DOMAIN result.drifts : result.drifts[i].nodeId = id}

\* C22: detectBatchDrift returns, for every key of the union of both maps whose
\* detectDrift result has isDrift true, that drift exactly once, and nothing
\* else: no entry for a key with equal or both-absent intents, for a key whose
\* drift has isDrift false, or for an id that is in neither map.
C22_BatchKeepsExactlyTheDrifts ==
  BatchReturned =>
    /\ \A i \in DOMAIN result.drifts : result.drifts[i].nodeId \in BatchKeys
    /\ \A id \in BatchKeys :
         IF DriftOf(id) # Null /\ DriftOf(id).isDrift
           THEN /\ Cardinality(EntriesFor(id)) = 1
                /\ \A i \in EntriesFor(id) : result.drifts[i] = DriftOf(id)
           ELSE EntriesFor(id) = {}
    /\ \A id \in BatchKeys :
         (MapGet(args.old, id) = MapGet(args.new, id)) => EntriesFor(id) = {}

\* a key of both maps that drifts is listed next to one that does not: "A"
\* changed beyond the default threshold, "B" only reworded
C22_Witness ==
  /\ BatchReturned
  /\ args.threshold = 800
  /\ DOMAIN args.old = {"A", "B"} /\ DOMAIN args.new = {"A", "B"}
  /\ Len(result.drifts) = 1 /\ result.drifts[1].nodeId = "A"
  /\ DriftOf("B") # Null /\ ~DriftOf("B").isDrift

-----------------------------------------------------------------------------
(* Properties of the drift certificate *)

CertVerified == args.fn = "certificate" /\ result # NotCalled /\ result.report # "none"
ContentUnchanged == CertForHash(result.certificate) = CertForHash(result.generated)

\* C23: verify returns true only if the certificate's non-proof content
\* (version, metadata, drift summary and changes, intent) is still the content
\* proof.hash was computed from; any change of that content after generate makes
\* verify return false, and a change of the proof section alone leaves it true.
C23_CertificateIntegrity ==
  CertVerified =>
    /\ result.report = "valid" => ContentUnchanged
    /\ ContentUnchanged => result.report = "valid"

-----------------------------------------------------------------------------
(* Properties of the git-aware scan command *)

ScanExited == cli.name = "scan" /\ cli.pc = "exited"
Compared == pc[Main] = "returned" /\ loc[Main].result.status = "ok"
Detected == loc[Main].result.diffs

C25_ModeFollowsBaseOption ==
  (cli.name = "scan" /\ cli.via = "command line" /\ cli.pc \in {"scan_await", "exited"}
     /\ loc[Main].mode # "none") =>
    IF cli.given = NoOption
      THEN loc[Main].mode = "working-tree"
      ELSE /\ loc[Main].mode = "commit-range"
           /\ loc[Main].baseRef = cli.given /\ loc[Main].headRef = "HEAD"

-----------------------------------------------------------------------------
(* Properties of the three comparison entry points *)

\* the state the base graph and the head graph of a comparison stand for
BaseStateOf(p) ==
  IF loc[p].mode = "working-tree" THEN [commit |-> before[p].head.commit, edits |-> {}]
  ELSE [commit |-> loc[p].baseCommit, edits |-> {}]
HeadStateOf(p) ==
  IF loc[p].mode = "working-tree"
    THEN [commit |-> before[p].head.commit, edits |-> before[p].dirty]
  ELSE [commit |-> IF loc[p].headCommit = "HEAD" THEN before[p].head.commit
                   ELSE loc[p].headCommit,
        edits |-> {}]

\* C26: in compareCommits, scanCommitRange and scanUncommittedChanges the base
\* graph is built from a working tree that holds exactly the base state (the
\* base commit, or the last commit without the uncommitted edits) and the head
\* graph from a tree that holds the head state, also when the stash push fails.
C26_GraphsBuiltFromTheirStates ==
  /\ loc[Main].baseNodes # NoNodes => loc[Main].baseNodes = BaseStateOf(Main)
  /\ loc[Main].headNodes # NoNodes => loc[Main].headNodes = HeadStateOf(Main)

\* the commands of a commit-range comparison on its success path
CommitRangeSteps ==
  <<"rev-parse", "rev-parse", "diff", "abbrev-ref", "checkout", "crawl", "checkout", "crawl",
    "diffMany", "checkout">>
CrawledOk(p, path, before_i) ==
  \E j \in 1..(before_i - 1) :
    log[p][j].cmd = "crawl" /\ log[p][j].arg = path /\ log[p][j].ok

\* C27: a commit-range comparison with a non-empty changed-file list that
\* returns has executed, in this order and with none skipped: resolve base,
\* resolve head, list changed files, record the current branch, checkout base,
\* build base graph, checkout head, build head graph, diff, checkout of the
\* recorded branch (getCurrentBranch falls back to HEAD when git fails, every
\* other command succeeded); on every path the diff comes after both graphs were built
\* and every checkout after the current branch was recorded.
C27_CommitRangeStepOrder ==
  \A p \in Procs :
    Mode(p) = "commit-range" =>
      /\ (pc[p] = "returned" /\ loc[p].filesChanged # {}) =>
           /\ [i \in DOMAIN log[p] |-> log[p][i].cmd] = CommitRangeSteps
           /\ \A i \in DOMAIN log[p] : log[p][i].ok \/ log[p][i].cmd = "abbrev-ref"
           /\ log[p][1].arg = loc[p].baseRef /\ log[p][2].arg = loc[p].headRef
           /\ log[p][5].arg = loc[p].baseCommit /\ log[p][6].arg = BaseEnginePath
           /\ log[p][7].arg = loc[p].headCommit /\ log[p][8].arg = HeadEnginePath
           /\ log[p][10].arg = loc[p].currentBranch
      /\ \A i \in DOMAIN log[p] :
           /\ log[p][i].cmd = "diffMany" =>
                CrawledOk(p, BaseEnginePath, i) /\ CrawledOk(p, HeadEnginePath, i)
           /\ log[p][i].cmd = "checkout" =>
                \E j \in 1..(i - 1) : log[p][j].cmd = "abbrev-ref"

\* a commit-range comparison of c0 with c1 that returned its changed files
C27_Witness ==
  \E p \in Procs :
    /\ pc[p] = "returned" /\ Mode(p) = "commit-range"
    /\ loc[p].filesChanged # {}
    /\ Len(log[p]) = 10
    /\ loc[p].result.diffs # {}

Count(p, cmd, onlyOk) ==
  Cardinality({i \in DOMAIN log[p] : log[p][i].cmd = cmd /\ (onlyOk => log[p][i].ok)})

\* C28: in working-tree mode a comparison never executes more stash pops than
\* it made successful stash pushes, on any path, so it never pops an entry
\* that was on the stash stack before it started.
C28_PopsWithinPushes ==
  \A p \in Procs :
    Mode(p) = "working-tree" =>
      /\ Count(p, "stash-pop", FALSE) <= Count(p, "stash-push", TRUE)
      /\ Len(stash) >= Len(before[p].stash)

\* C29: when a comparison has ended, by returning or by throwing, neither
\* .dotto-baseline.json nor .dotto-head.json is on disk.
C29_NoScratchFileLeft ==
  \A p \in Procs :
    Ended(p) => disk[BaseEnginePath] = Absent /\ disk[HeadEnginePath] = Absent

\* the submissions of an artifact id that succeeded, oldest first
SubmissionsOf(id) == SelectSeq(ledger, LAMBDA s : s.id = id)

\* C30: an artifact recorded with status 'verified' carries the reference of
\* a successful submission, and its content hash is the hash that was last
\* submitted successfully for it; a new artifact, or one whose content changed
\* since its last verification, is not recorded as 'verified'.
C30_VerifiedMeansSubmitted ==
  \A j \in DOMAIN ReadArtifacts :
    LET a == ReadArtifacts[j]
    IN a.status = "verified" =>
         /\ a.tx \in DOMAIN ledger
         /\ SubmissionsOf(a.id) # <<>>
         /\ SubmissionsOf(a.id)[Len(SubmissionsOf(a.id))].hash = a.hash

====
